---- MODULE Spec2Model ----
(***************************************************************************)
(* Timeline preview / export engine of the slideshow compositor            *)
(* (src/components/VideoPreview.tsx: the VideoPreview component and the    *)
(* App component that owns the timeline).                                  *)
(*                                                                         *)
(* Times are integers in milliseconds, as in drawFrame.  The settings     *)
(* (settings.photoDuration, settings.transitionDuration) hold whole        *)
(* seconds and are multiplied by 1000 where the source multiplies them;    *)
(* the durations read from files (UploadedMedia.duration,                  *)
(* AudioTrack.duration, AudioBuffer.duration) are held in milliseconds, so *)
(* that clips and tracks shorter than a second can be told apart.  Slide   *)
(* indices are 0-based as in the source; sequences are 1-based, so slide i *)
(* is mediaList[i + 1].                                                    *)
(*                                                                         *)
(* Collage editor (src/unnamed/part_000: the CollageGenerator component):  *)
(* canvas positions and item sizes are whole pixels, the geometry of the   *)
(* hit test and of the drawing is computed in twentieths of a pixel, an    *)
(* item's scale is held in tenths and its rotation in quarter turns.       *)
(***************************************************************************)
EXTENDS Integers, Sequences, FiniteSets, TLC

VARIABLES
    \* App component state
    appState,        \* useState<AppState>
    media,           \* the timeline sequence (prop mediaList of VideoPreview)
    settings,        \* VideoSettings (photoDuration, transitionDuration)
    previewIndex,    \* prop forcedIndex of VideoPreview (Null: undefined)
    videoUrl,        \* the exported video handed to handleRenderingComplete
    audioTracks,     \* the background tracks (prop audio of VideoPreview)
    selectedMediaId, \* Null or the id of the slide whose overlays are edited
    \* VideoPreview component state
    isPlaying,
    manualSeekTime,  \* Null or a clock value in ms
    currentMediaIndex,
    selectedOverlayId,      \* NoOverlay (null), "text" or the id of a sticker
    previewInteractionMode, \* VideoPreview's interactionMode: NONE, MOVE, ROTATE, RESIZE
    previewDragStartPos,    \* VideoPreview's dragStartPos
    initialOverlayState,    \* NoItemState (null) or the overlay as it was at pointer-down
    orphanContexts,  \* open AudioContexts that audioContextRef no longer refers to
    \* VideoPreview refs
    elapsed,         \* performance.now() - startTimeRef.current; Null while startTimeRef.current is 0
    totalLoopDurationRef,
    imagesRef,       \* imagesRef.current: one resource per loaded slide
    rafQueue,        \* frame callbacks scheduled with requestAnimationFrame, oldest first
    loads,           \* loadResources calls whose promises are still pending
    recorders,       \* every MediaRecorder created so far
    mediaRecorderRef,\* index into recorders (0: null)
    audioContextRef, \* "null", "open" or "closed"
    sourceNodesRef,  \* sourceNodesRef.current: [startTime, endTime] of each started source
    gainNodesRef,    \* number of GainNodes kept in gainNodesRef.current
    audioBuffersRef, \* decoded buffer durations in ms (0: null buffer)
    \* What the canvas shows
    frame,           \* what the drawFrame call of this step did
    exportedClock,   \* clock value of the last frame drawn by the running export
    \* CollageGenerator component state (mounted while appState is COLLAGE)
    canvasItems,     \* the items, in insertion order (itemsRef.current holds the same objects)
    selectedItemId,  \* NoSelection (null) or the id of the selected item
    isCropping,
    interactionMode, \* NONE, MOVE, ROTATE, RESIZE, CROP_PAN, CROP_TL, CROP_TR, CROP_BL, CROP_BR
    dragStartPos,
    initialItemState, \* NoItemState (null) or the item as it was at pointer-down
    editingCollageId, \* 0 (null) or the id of the collage that was loaded into the editor
    saveTimer,        \* NoTimer or the pending setTimeout callback of handleSaveInternal
    shownSelection    \* whether the painted canvas shows the chrome of a selection

----------------------------------------------------------------------------
\* Bounds of the model

MaxSlides == 2          \* slides on the timeline
MaxFrameSlides == 3     \* slides of a timeline handed to the frame computation alone
MaxPending == 2         \* frame callbacks scheduled at one time
MaxLoads == 1           \* loadResources calls in flight at one time
MaxRecorders == 1       \* exports started in one behaviour
MaxTracks == 1          \* background tracks
MaxPasses == 256        \* passes of the track scheduling loop that are followed
MaxOrphans == 1         \* the count of unreachable open audio contexts saturates here
MaxElapsedMs == 2000    \* the running clock saturates here
MaxClockMs == 4000      \* largest clock value handed to the frame computation alone
MaxItems == 3           \* items on the collage canvas
MaxLift == 1            \* how far body hits may lift an item above the zIndex of a new item
MaxScale == 20          \* largest scale a drag may give an item, in tenths
MaxQuarterTurns == 2    \* largest rotation a drag may give an item, either way
MaxPan == 400           \* largest imgOffset a drag may give an image, in half pixels

\* Time between two observations of the running clock, in ms
ClockSteps == {1000}

\* Clock values handed to the frame computation alone: every half second
ClockValues == {k * 500 : k \in 0 .. (MaxClockMs \div 500)}

----------------------------------------------------------------------------
\* Values

Null == -1

\* The outcomes of a division by zero (0 / 0 and x / 0 with x > 0)
NaN == -3
Infinity == -2
IsNumber(v) == v \notin {NaN, Infinity}

\* x / 0 with x < 0, and 1.15 - Infinity
MinusInfinity == -4

Min(a, b) == IF a < b THEN a ELSE b
Max(a, b) == IF a > b THEN a ELSE b

\* initialItemState === null, initialOverlayState === null
NoItemState == [held |-> FALSE]

\* selectedOverlayId === null
NoOverlay == ""

\* overlayText === undefined
NoOverlayText == [type |-> "none"]

AppStates == {"IDLE", "COLLAGE", "EDITING", "RENDERING", "FINISHED"}

TransitionTypes == {"FADE", "SLIDE_LEFT", "ZOOM_IN"}

\* UploadedMedia, reduced to the fields the renderer and the overlay editor
\* read.  id is 0 in a file that is not on a timeline yet and in the
\* timelines handed to the frame computation alone, where no id is read.
\* duration = 0 stands for an absent (or zero) duration: `item.duration || 5`.
\* collageData tells whether the slide is a collage; of collageData.items
\* the ids of the photos are kept, in collagePhotos.
\* previewUrl is "ok" for a URL that decodes, "bad" for one whose load fires
\* onerror, and "" for the empty URL a loaded project leaves behind.
Photo == [id |-> 0, overlayEffects |-> << >>, overlayText |-> NoOverlayText,
          type |-> "image", fileName |-> "photo.jpg",
          duration |-> 0, missing |-> FALSE, previewUrl |-> "ok",
          collageData |-> FALSE, collagePhotos |-> << >>,
          enableOriginalAudio |-> FALSE, transition |-> "FADE"]
BrokenPhoto == [Photo EXCEPT !.fileName = "broken.jpg", !.previewUrl = "bad",
                             !.transition = "ZOOM_IN"]
Clip == [id |-> 0, overlayEffects |-> << >>, overlayText |-> NoOverlayText,
         type |-> "video", fileName |-> "clip.mp4",
         duration |-> 1000, missing |-> FALSE, previewUrl |-> "ok",
         collageData |-> FALSE, collagePhotos |-> << >>,
         enableOriginalAudio |-> TRUE, transition |-> "SLIDE_LEFT"]
ClipNoDuration == [Clip EXCEPT !.duration = 0, !.enableOriginalAudio = FALSE]
Collage == [Photo EXCEPT !.fileName = "collage.png", !.collageData = TRUE]

\* A slide restored from a project file and not uploaded again (line 1695)
MissingClip == [ClipNoDuration EXCEPT !.fileName = "lost.mp4", !.previewUrl = "",
                                      !.missing = TRUE]

\* crypto.randomUUID(): an id no slide of mediaList has
FreshId(mediaList) ==
    CHOOSE n \in 1 .. Len(mediaList) + 1 :
        /\ \A i \in DOMAIN mediaList : mediaList[i].id # n
        /\ \A k \in 1 .. n - 1 : \E i \in DOMAIN mediaList : mediaList[i].id = k

\* The photos of the media library (loadedImages), and the ids of the
\* uploads they are: the library shows every upload under the id it has on
\* the timeline
PhotoIds == {"p1", "p2"}
LibraryId == [p1 |-> 1, p2 |-> 2]

\* crypto.randomUUID() for a new collage: the smallest id above those of the
\* library that no slide of the timeline has
FreshCollageId(mediaList) ==
    LET base == Cardinality(PhotoIds)
    IN  CHOOSE n \in base + 1 .. base + Len(mediaList) + 1 :
            /\ \A i \in DOMAIN mediaList : mediaList[i].id # n
            /\ \A k \in base + 1 .. n - 1 : \E i \in DOMAIN mediaList : mediaList[i].id = k

\* A timeline whose slides carry the ids 1, 2, ...
Numbered(mediaList) == [i \in DOMAIN mediaList |-> [mediaList[i] EXCEPT !.id = i]]

\* Files a user uploads
UploadCatalog == {Photo, BrokenPhoto, Clip}

\* Files uploaded in the behaviours that play and export
ClipCatalog == {Clip}

\* Slides of the timelines handed to the frame computation alone
FrameCatalog == {Photo, BrokenPhoto, Clip, MissingClip, Collage}

\* settings.photoDuration (s) and settings.transitionDuration (s)
PhotoDurations == {1, 3}
TransitionDurations == {1, 2}
SettingsCatalog ==
    [photoDuration : PhotoDurations, transitionDuration : TransitionDurations]

\* A saved project (SavedProject): its media are SavedMediaItems, i.e. slides
\* without file and previewUrl, a collage carrying its image as fileData
Saved(m) == [m EXCEPT !.previewUrl = ""]
ProjectCatalog ==
    { [settings |-> [photoDuration |-> 3, transitionDuration |-> 1],
       media |-> Numbered(<< Saved(Photo), Saved(Clip) >>), audioTracks |-> << >>],
      [settings |-> [photoDuration |-> 1, transitionDuration |-> 2],
       media |-> Numbered(<< Saved(Collage) >>), audioTracks |-> << >>],
      [settings |-> [photoDuration |-> 1, transitionDuration |-> 1],
       media |-> << >>, audioTracks |-> << >>] }

\* The state of one entry of imagesRef.current
Resources == {"image", "videoPaused", "videoPlaying", "null"}

IsVideoElement(r) == r \in {"videoPaused", "videoPlaying"}

\* AudioTrack: duration in milliseconds; a missing track has no decodable data
Song == [duration |-> 3000, missing |-> FALSE]
AudioCatalog == {Song}

\* A track of a tenth of a second, one shorter than that, and a track
\* restored from a project file and not uploaded again
Jingle == [duration |-> 100, missing |-> FALSE]
Blip == [duration |-> 50, missing |-> FALSE]
LostSong == [duration |-> 0, missing |-> TRUE]

\* The track lists of the music slice
MusicCatalog ==
    { << Song >>, << Jingle >>, << LostSong, Song >>, << Jingle, LostSong >>,
      << Blip >>, << LostSong >>, << LostSong, Blip >> }

\* A clip of half a second with its original audio on
ShortClip == [Clip EXCEPT !.fileName = "short.mp4", !.duration = 500]

\* setupAudioGraph: `buffer.duration < 0.1`, CROSSFADE_DURATION and the
\* bound of `if (trackIndex > 100) break;`
MinTrackMs == 100
CrossfadeMs == 500
TrackIndexCap == 100

----------------------------------------------------------------------------
\* drawFrame: the pure part (slide lookup, transition window, render pipeline)

\* const d = (mediaList[i].type === 'video' ? (mediaList[i].duration || 5)
\*                                          : settings.photoDuration) * 1000
SlideDurationMs(m, s) ==
    IF m.type = "video" THEN (IF m.duration # 0 THEN m.duration ELSE 5 * 1000)
                        ELSE s.photoDuration * 1000

\* mediaList.reduce((acc, item) => acc + duration * 1000, 0)
RECURSIVE ReduceDuration(_, _, _)
ReduceDuration(mediaList, s, i) ==
    IF i = 0 THEN 0
    ELSE ReduceDuration(mediaList, s, i - 1)
         + (IF mediaList[i].type = "video"
               THEN (IF mediaList[i].duration # 0 THEN mediaList[i].duration ELSE 5 * 1000)
               ELSE s.photoDuration * 1000)

calculateTotalDuration(mediaList, s) == ReduceDuration(mediaList, s, Len(mediaList))

\* FindSlide with the end of a slide taken as part of it
RECURSIVE FindSlideInclusive(_, _, _, _, _)
FindSlideInclusive(mediaList, s, loopTime, i, currentSlideStart) ==
    IF i >= Len(mediaList)
    THEN [slideIndex |-> 0, slideDuration |-> 0, currentSlideStart |-> currentSlideStart]
    ELSE LET d == SlideDurationMs(mediaList[i + 1], s)
         IN  IF loopTime >= currentSlideStart /\ loopTime <= currentSlideStart + d
             THEN [slideIndex |-> i, slideDuration |-> d, currentSlideStart |-> currentSlideStart]
             ELSE FindSlideInclusive(mediaList, s, loopTime, i + 1, currentSlideStart + d)

\* The for-loop of drawFrame that finds the current slide.  i is the 0-based
\* loop index; the result is the value of (slideIndex, slideDuration,
\* currentSlideStart) when the loop ends (by break or by exhaustion).
RECURSIVE FindSlide(_, _, _, _, _)
FindSlide(mediaList, s, loopTime, i, currentSlideStart) ==
    IF i >= Len(mediaList)
    THEN [slideIndex |-> 0, slideDuration |-> 0, currentSlideStart |-> currentSlideStart]
    ELSE LET d == SlideDurationMs(mediaList[i + 1], s)
         IN  IF loopTime >= currentSlideStart /\ loopTime < currentSlideStart + d
             THEN [slideIndex |-> i, slideDuration |-> d, currentSlideStart |-> currentSlideStart]
             ELSE FindSlide(mediaList, s, loopTime, i + 1, currentSlideStart + d)

\* The element a slide's load resolves with (lines 72-95)
LoadedResource(m) ==
    IF m.missing THEN "null"
    ELSE IF m.previewUrl # "ok" THEN "null"
    ELSE IF m.type = "video" THEN "videoPaused"
    ELSE "image"

\* imagesRef.current[idx]: undefined (falsy, like null) outside the array
ResourceAt(images, idx) ==
    IF idx + 1 \in DOMAIN images THEN images[idx + 1] ELSE "null"

\* renderMedia(media, alpha, scale, offsetX, offsetY, mediaData): what it draws
renderMedia(resource, mediaData) ==
    IF mediaData.collageData THEN "collage"
    ELSE IF resource = "null"
         THEN (IF mediaData.missing THEN "placeholder" ELSE "nothing")
         ELSE "media"

\* TransitionStart with the operands of the subtraction swapped
TransitionStartSwapped(slideDuration, effectiveTransitionDuration) ==
    Max(0, effectiveTransitionDuration - slideDuration)

\* const transitionStart = Math.max(0, slideDuration - effectiveTransitionDuration)
TransitionStart(slideDuration, effectiveTransitionDuration) ==
    Max(0, slideDuration - effectiveTransitionDuration)

\* RenderPhase without the rule for the last slide of an export
RenderPhaseEverywhere(closureAppState, length, slideIndex, timeInSlide, transitionStart) ==
    IF length = 1 THEN "single"
    ELSE IF timeInSlide < transitionStart THEN "normal"
    ELSE "transition"

\* The branch the main render pipeline takes (lines 709-756): "single" and
\* "normal" draw the current slide alone, "transition" draws the current slide
\* and then the next one
RenderPhase(closureAppState, length, slideIndex, timeInSlide, transitionStart) ==
    IF length = 1 \/ (closureAppState = "RENDERING" /\ slideIndex = length - 1)
    THEN "single"
    ELSE IF timeInSlide < transitionStart THEN "normal"
    ELSE "transition"

\* a / b of two clock values, a >= 0, in thousandths
Quotient(a, b) ==
    IF b # 0 THEN (a * 1000) \div b
    ELSE IF a = 0 THEN NaN ELSE Infinity

\* Math.max(0, Math.min(1, transProgress)), in thousandths: Math.min and
\* Math.max return NaN when an argument is NaN
ClampProgress(transProgress) ==
    IF transProgress = NaN THEN NaN
    ELSE IF transProgress = Infinity THEN 1000
    ELSE Max(0, Min(1000, transProgress))

\* getZoomScale(type, progress0to1) (lines 699-703), progress in thousandths
\* and the factor in millionths
getZoomScale(type, progress0to1) ==
    CASE type = "ZOOM_IN" ->
           (IF IsNumber(progress0to1) THEN 1000000 + progress0to1 * 150 ELSE progress0to1)
      [] type = "ZOOM_OUT" ->
           (IF progress0to1 = NaN THEN NaN
            ELSE IF progress0to1 = Infinity THEN MinusInfinity
            ELSE 1150000 - progress0to1 * 150)
      [] OTHER -> 1000000

\* canvas.width and canvas.height: settings.resolution (lines 1299-1300, 1388)
Resolution == [width |-> 960, height |-> 720]

\* t * dimension, in thousandths of a pixel
Scaled(t, dimension) == IF t = NaN THEN NaN ELSE t * dimension
Negated(v) == IF v = NaN THEN NaN ELSE 0 - v
OneMinus(t) == IF t = NaN THEN NaN ELSE 1000 - t

\* The switch of the transition phase (lines 729-755): alpha (thousandths),
\* scale, offsetX and offsetY (thousandths of a pixel) of the renderMedia
\* call for the current slide and of the one for the next slide
TransitionArgs(transitionType, t, currentScale) ==
    LET w == Resolution.width
        h == Resolution.height
        out(x, y) == [alpha |-> 1000, scale |-> currentScale, offsetX |-> x, offsetY |-> y]
        in(x, y) == [alpha |-> 1000, scale |-> 1000000, offsetX |-> x, offsetY |-> y]
    IN  CASE transitionType = "SLIDE_LEFT" ->
               << out(Negated(Scaled(t, w)), 0), in(Scaled(OneMinus(t), w), 0) >>
          [] transitionType = "SLIDE_RIGHT" ->
               << out(Scaled(t, w), 0), in(Negated(Scaled(OneMinus(t), w)), 0) >>
          [] transitionType = "SLIDE_UP" ->
               << out(0, Negated(Scaled(t, h))), in(0, Scaled(OneMinus(t), h)) >>
          [] transitionType = "SLIDE_DOWN" ->
               << out(0, Scaled(t, h)), in(0, Negated(Scaled(OneMinus(t), h))) >>
          [] OTHER ->
               << [alpha |-> 1000, scale |-> currentScale, offsetX |-> 0, offsetY |-> 0],
                  [alpha |-> t, scale |-> 1000000, offsetX |-> 0, offsetY |-> 0] >>

\* The main render pipeline of drawFrame for a clock value loopTime, as seen
\* by a drawFrame closure created with (appState, mediaList, settings).
\* Only called with a non-empty mediaList.
RenderPipeline(closureAppState, mediaList, s, images, loopTime) ==
    LET found == FindSlide(mediaList, s, loopTime, 0, 0)
        slideIndex == found.slideIndex
        slideDuration == found.slideDuration
        nextSlideIndex == (slideIndex + 1) % Len(mediaList)
        timeInSlide == loopTime - found.currentSlideStart
        transitionDurationMs == s.transitionDuration * 1000
        effectiveTransitionDuration == Min(transitionDurationMs, slideDuration)
        transitionStart == TransitionStart(slideDuration, effectiveTransitionDuration)
        currentMediaData == mediaList[slideIndex + 1]
        nextMediaData == mediaList[nextSlideIndex + 1]
        drawCurrent == [slide |-> slideIndex,
                        drew |-> renderMedia(ResourceAt(images, slideIndex), currentMediaData)]
        drawNext == [slide |-> nextSlideIndex,
                     drew |-> renderMedia(ResourceAt(images, nextSlideIndex), nextMediaData)]
        phase == RenderPhase(closureAppState, Len(mediaList), slideIndex,
                             timeInSlide, transitionStart)
        transitionType == currentMediaData.transition
        slideLifeProgress == Quotient(timeInSlide, slideDuration)
        currentScale == getZoomScale(transitionType, slideLifeProgress)
        t == ClampProgress(Quotient(timeInSlide - transitionStart,
                                    effectiveTransitionDuration))
    IN  [drawn |-> TRUE,
         outcome |-> "drawn",
         appState |-> closureAppState,
         mediaList |-> mediaList,
         settings |-> s,
         loopTime |-> loopTime,
         totalDuration |-> calculateTotalDuration(mediaList, s),
         slideIndex |-> slideIndex,
         nextSlideIndex |-> nextSlideIndex,
         slideDuration |-> slideDuration,
         timeInSlide |-> timeInSlide,
         transitionStart |-> transitionStart,
         effectiveTransitionDuration |-> effectiveTransitionDuration,
         phase |-> phase,
         isPlaying |-> FALSE,
         volume |-> 0,
         recording |-> FALSE,
         elapsed |-> 0,
         previousClock |-> Null,
         calls |-> IF phase = "transition" THEN <<drawCurrent, drawNext>>
                   ELSE <<drawCurrent>>,
         slideLifeProgress |-> slideLifeProgress,
         args |-> IF phase = "transition"
                  THEN TransitionArgs(transitionType, t, currentScale)
                  ELSE << [alpha |-> 1000, scale |-> currentScale,
                           offsetX |-> 0, offsetY |-> 0] >>]

NoFrame == [drawn |-> FALSE, outcome |-> "none"]

----------------------------------------------------------------------------
\* The component state as one record, so that a handler and the effects it
\* triggers compose as functions from state to state.

State ==
    [appState |-> appState, media |-> media, settings |-> settings,
     previewIndex |-> previewIndex, videoUrl |-> videoUrl, audioTracks |-> audioTracks,
     isPlaying |-> isPlaying, manualSeekTime |-> manualSeekTime,
     currentMediaIndex |-> currentMediaIndex, elapsed |-> elapsed,
     totalLoopDurationRef |-> totalLoopDurationRef, imagesRef |-> imagesRef,
     rafQueue |-> rafQueue, loads |-> loads, recorders |-> recorders,
     mediaRecorderRef |-> mediaRecorderRef, audioContextRef |-> audioContextRef,
     sourceNodesRef |-> sourceNodesRef, gainNodesRef |-> gainNodesRef,
     audioBuffersRef |-> audioBuffersRef, frame |-> NoFrame,
     exportedClock |-> exportedClock,
     selectedMediaId |-> selectedMediaId, selectedOverlayId |-> selectedOverlayId,
     previewInteractionMode |-> previewInteractionMode,
     previewDragStartPos |-> previewDragStartPos,
     initialOverlayState |-> initialOverlayState,
     orphanContexts |-> orphanContexts]

\* What a function created during a render closes over: the state and props
\* of that render (drawFrame's useCallback dependencies).
Closure(S) ==
    [isPlaying |-> S.isPlaying, appState |-> S.appState, mediaList |-> S.media,
     settings |-> S.settings, manualSeekTime |-> S.manualSeekTime,
     selectedOverlayId |-> S.selectedOverlayId, selectedMediaId |-> S.selectedMediaId]

\* if (requestRef.current) cancelAnimationFrame(requestRef.current):
\* requestRef.current is the callback marked cur, if it has not run yet
cancelAnimationFrame(S) ==
    [S EXCEPT !.rafQueue = SelectSeq(@, LAMBDA e : ~e.cur)]

\* requestRef.current = requestAnimationFrame(drawFrame), drawFrame being the
\* callback of the render whose closure is c
requestAnimationFrame(S, c) ==
    [S EXCEPT !.rafQueue =
        Append([i \in DOMAIN @ |-> [@[i] EXCEPT !.cur = FALSE]],
               [closure |-> c, cur |-> TRUE])]

\* forEach(m => { if (m instanceof HTMLVideoElement) m.pause() })
PauseVideos(images) ==
    [i \in DOMAIN images |->
        IF images[i] = "videoPlaying" THEN "videoPaused" ELSE images[i]]

stopRendering(S) ==
    LET r == S.mediaRecorderRef
        S1 == IF r # 0 /\ S.recorders[r].state # "inactive"
              THEN [S EXCEPT !.recorders[r].state = "inactive",
                             !.recorders[r].stopEvent = TRUE]
              ELSE S
    IN  [cancelAnimationFrame(S1) EXCEPT !.imagesRef = PauseVideos(@)]

\* The play / pause handling of video elements in drawFrame (lines 271-301)
VideoStep(images, slideIndex, closureIsPlaying) ==
    [i \in DOMAIN images |->
        IF ~IsVideoElement(images[i]) THEN images[i]
        ELSE IF i = slideIndex + 1
             THEN (IF closureIsPlaying THEN "videoPlaying" ELSE "videoPaused")
             ELSE "videoPaused"]

\* mediaCurrent.volume as drawFrame sets it (lines 277-290), 1 for 1.0
ElementVolume(closureAppState, currentMediaData, closureIsPlaying) ==
    IF closureAppState \in {"EDITING", "COLLAGE"}
    THEN (IF currentMediaData.enableOriginalAudio /\ closureIsPlaying THEN 1 ELSE 0)
    ELSE (IF currentMediaData.enableOriginalAudio THEN 1 ELSE 0)

\* loopTime of drawFrame (lines 211-224), for a frame that is not the end of
\* the export; el is timestamp - startTimeRef.current
LoopTime(c, el, totalDuration) ==
    IF c.appState = "RENDERING" THEN Min(el, totalDuration - 1)
    ELSE IF c.isPlaying THEN el % totalDuration
    ELSE IF c.manualSeekTime # Null THEN c.manualSeekTime ELSE 0

\* drawFrame(timestamp), called as the callback of the render with closure c
drawFrame(S, c) ==
    IF S.appState = "COLLAGE" \/ Len(S.imagesRef) = 0
    THEN [S EXCEPT !.frame = [drawn |-> FALSE, outcome |-> "skipped"]]
    ELSE
    LET S1 == IF S.elapsed = Null THEN [S EXCEPT !.elapsed = 0] ELSE S
        totalDuration == calculateTotalDuration(c.mediaList, c.settings)
        recording == S.mediaRecorderRef # 0
                     /\ S.recorders[S.mediaRecorderRef].state = "recording"
    IN  IF c.appState = "RENDERING" /\ S1.elapsed >= S1.totalLoopDurationRef
        THEN [stopRendering(S1) EXCEPT
                 !.frame = [drawn |-> FALSE, outcome |-> "stopped",
                            recording |-> recording,
                            elapsed |-> S1.elapsed, totalDuration |-> totalDuration]]
        ELSE IF Len(c.mediaList) = 0
        THEN \* currentMediaData is undefined: reading its fields throws
             \* (after the other videos were paused, unless the first
             \* resource is a video element: then line 278 throws first)
             [S1 EXCEPT !.frame = [drawn |-> FALSE, outcome |-> "threw"],
                        !.imagesRef = IF IsVideoElement(@[1]) THEN @ ELSE PauseVideos(@)]
        ELSE
        LET loopTime == LoopTime(c, S1.elapsed, totalDuration)
            fr == RenderPipeline(c.appState, c.mediaList, c.settings, S1.imagesRef, loopTime)
            S2 == [S1 EXCEPT
                     !.imagesRef = VideoStep(@, fr.slideIndex, c.isPlaying),
                     !.currentMediaIndex = fr.slideIndex,
                     !.frame = [fr EXCEPT !.isPlaying = c.isPlaying,
                                          !.volume =
                                              ElementVolume(c.appState,
                                                  c.mediaList[fr.slideIndex + 1],
                                                  c.isPlaying),
                                          !.recording = recording,
                                          !.elapsed = S1.elapsed,
                                          !.previousClock = S1.exportedClock],
                     !.exportedClock = IF c.appState = "RENDERING" THEN loopTime ELSE @]
        IN  IF c.isPlaying \/ c.appState = "RENDERING"
            THEN requestAnimationFrame(S2, c)
            ELSE S2

----------------------------------------------------------------------------
\* Audio graph, playback and export

\* The locals of the while loop of setupAudioGraph on entry (lines 875-876),
\* with the sources it has started so far; running is FALSE once the loop
\* has been left
LoopEntry == [cursorTime |-> 0, trackIndex |-> 0, sources |-> << >>, running |-> TRUE]

\* The same pass without `if (trackIndex > 100) break;`
LoopPassWithoutCap(buffers, videoDuration, l) ==
    IF ~(l.cursorTime < videoDuration) THEN [l EXCEPT !.running = FALSE]
    ELSE LET buffer == buffers[(l.trackIndex % Len(buffers)) + 1]
         IN  IF buffer = 0 \/ buffer < MinTrackMs
             THEN [l EXCEPT !.trackIndex = @ + 1]
             ELSE LET fadeTime == Min(CrossfadeMs, buffer \div 3)
                  IN  [l EXCEPT !.sources = Append(@, [startTime |-> l.cursorTime,
                                                       endTime |-> l.cursorTime + buffer]),
                                !.cursorTime = @ + (buffer - fadeTime),
                                !.trackIndex = @ + 1]

\* One evaluation of the loop condition and, where it holds, one pass over
\* the body (lines 879-914).  Durations in ms; a null buffer is 0.
LoopPass(buffers, videoDuration, l) ==
    IF ~(l.cursorTime < videoDuration) THEN [l EXCEPT !.running = FALSE]
    ELSE LET buffer == buffers[(l.trackIndex % Len(buffers)) + 1]
         IN  IF buffer = 0 \/ buffer < MinTrackMs
             THEN [l EXCEPT !.trackIndex = @ + 1,
                            !.running = ~(l.trackIndex + 1 > TrackIndexCap)]
             ELSE LET fadeTime == Min(CrossfadeMs, buffer \div 3)
                  IN  [l EXCEPT !.sources = Append(@, [startTime |-> l.cursorTime,
                                                       endTime |-> l.cursorTime + buffer]),
                                !.cursorTime = @ + (buffer - fadeTime),
                                !.trackIndex = @ + 1]

\* The loop run for at most `passes` passes from l: the first half of the
\* passes, then the rest from where they ended
RECURSIVE RunLoop(_, _, _, _)
RunLoop(buffers, videoDuration, l, passes) ==
    IF ~l.running \/ passes = 0 THEN l
    ELSE IF passes = 1 THEN LoopPass(buffers, videoDuration, l)
    ELSE RunLoop(buffers, videoDuration,
                 RunLoop(buffers, videoDuration, l, passes \div 2),
                 passes - (passes \div 2))

\* The while loop of setupAudioGraph (lines 879-914), followed for at most
\* MaxPasses passes: its locals and the sources it has started
ScheduleLoop(buffers, videoDuration) ==
    RunLoop(buffers, videoDuration, LoopEntry, MaxPasses)

\* setupAudioGraph(ctx, destination): the nodes it adds to sourceNodesRef and
\* gainNodesRef (one gain per source, plus musicMixNode, duckingGain, masterGain)
setupAudioGraph(S, c) ==
    IF Len(S.audioBuffersRef) > 0
    THEN LET started == ScheduleLoop(S.audioBuffersRef,
                            calculateTotalDuration(c.mediaList, c.settings)).sources
         IN  [S EXCEPT !.sourceNodesRef = @ \o started,
                       !.gainNodesRef = @ + Len(started) + 3]
    ELSE S

\* `const ctx = new AudioContext(); audioContextRef.current = ctx;` (lines
\* 973-974 and 1006-1007): a context that is open when the reference to it
\* is replaced stays open, and nothing can close it any more
NewAudioContext(S) ==
    [S EXCEPT !.orphanContexts = IF S.audioContextRef = "open"
                                 THEN Min(@ + 1, MaxOrphans) ELSE @,
              !.audioContextRef = "open"]

\* startPlayback, called from the render with closure c
startPlayback(S, c) ==
    LET S1 == [S EXCEPT !.isPlaying = TRUE, !.manualSeekTime = Null, !.elapsed = 0]
        S2 == IF Len(S1.audioBuffersRef) > 0
                 \/ \E i \in DOMAIN c.mediaList : c.mediaList[i].type = "video"
              THEN setupAudioGraph(NewAudioContext(S1), c)
              ELSE S1
    IN  requestAnimationFrame(S2, c)

\* stopPlayback, called from the render with closure c
stopPlayback(S, c) ==
    LET S1 == [S EXCEPT
                 !.isPlaying = FALSE,
                 !.manualSeekTime =
                     IF S.elapsed # Null /\ (c.manualSeekTime = Null \/ c.manualSeekTime = 0)
                     THEN S.elapsed ELSE @]
        S2 == cancelAnimationFrame(S1)
    IN  [S2 EXCEPT
           !.audioContextRef = IF @ = "open" THEN "null" ELSE @,
           !.sourceNodesRef = << >>,
           !.gainNodesRef = 0,
           !.imagesRef = PauseVideos(@)]

\* startRendering, called from the render with closure c; supported tells
\* whether `new MediaRecorder(stream, options)` succeeds or throws
startRendering(S, c, supported) ==
    LET S1 == setupAudioGraph(NewAudioContext(S), c)
    IN  IF supported
        THEN requestAnimationFrame(
                 [S1 EXCEPT
                    !.recorders = Append(@, [state |-> "recording", stopEvent |-> FALSE,
                                             mounted |-> TRUE]),
                    !.mediaRecorderRef = Len(S1.recorders) + 1,
                    !.elapsed = 0,
                    !.totalLoopDurationRef = calculateTotalDuration(c.mediaList, c.settings),
                    !.exportedClock = Null],
                 c)
        ELSE [S1 EXCEPT
                !.recorders = Append(@, [state |-> "failed", stopEvent |-> FALSE,
                                         mounted |-> TRUE])]

----------------------------------------------------------------------------
\* The effects of VideoPreview, in the order the component declares them

\* Effect on [mediaList] (lines 61-137).  loadResources pauses the current
\* video elements at once; its promises settle in a later step (LoadDone).
EffectLoadResources(S, c) ==
    IF Len(c.mediaList) > 0
    THEN [S EXCEPT !.imagesRef = PauseVideos(@),
                   !.loads = Append(@, c)]
    ELSE [S EXCEPT !.imagesRef = << >>]

\* Effect on [audio] (lines 140-170).  With no track the buffers are cleared
\* at once; otherwise they are replaced when the decoding ends (LoadAudioDone).
EffectLoadAudio(S) ==
    IF Len(S.audioTracks) = 0 THEN [S EXCEPT !.audioBuffersRef = << >>] ELSE S

\* let time = 0; for (i < forcedIndex) time += duration(mediaList[i]) * 1000
RECURSIVE SeekTarget(_, _, _)
SeekTarget(mediaList, s, forcedIndex) ==
    IF forcedIndex = 0 THEN 0
    ELSE SeekTarget(mediaList, s, forcedIndex - 1)
         + (IF mediaList[forcedIndex].type = "video"
               THEN (IF mediaList[forcedIndex].duration # 0
                        THEN mediaList[forcedIndex].duration ELSE 5 * 1000)
               ELSE s.photoDuration * 1000)

\* The forcedIndex effect reads mediaList[i] for every i < forcedIndex: with
\* forcedIndex > mediaList.length it throws during the commit, which unmounts
\* the application.  Such a commit ends the behaviour.
ForcedIndexThrows(forcedIndex, mediaList) ==
    forcedIndex # Null /\ Len(mediaList) > 0 /\ forcedIndex > Len(mediaList)

\* Effect on [forcedIndex] (lines 180-190)
EffectForcedIndex(S, c, forcedIndex) ==
    IF forcedIndex # Null /\ Len(c.mediaList) > 0
    THEN [stopPlayback(S, c) EXCEPT
             !.manualSeekTime = SeekTarget(c.mediaList, c.settings, forcedIndex) + 100]
    ELSE S

\* Effect on [mediaList, settings, manualSeekTime, selectedOverlayId] (lines 193-199)
EffectRedraw(S, c) ==
    IF ~c.isPlaying
    THEN requestAnimationFrame(cancelAnimationFrame(S), c)
    ELSE S

\* Cleanup of the effect on [appState] (lines 1084-1090); closureAppState is
\* the appState of the render that created the cleanup
EffectAppStateCleanup(S, closureAppState) ==
    IF closureAppState # "RENDERING"
       /\ S.mediaRecorderRef # 0
       /\ S.recorders[S.mediaRecorderRef].state = "recording"
    THEN stopRendering(S)
    ELSE S

\* Effect on [appState] (lines 1080-1083)
EffectAppState(S, c, supported) ==
    IF c.appState = "RENDERING" THEN startRendering(S, c, supported) ELSE S

\* The commit of a re-render of the mounted component: S0 is the state before
\* the handler ran, S1 the state it produced.  Cleanups run first, then the
\* effects whose dependencies changed; the state the forcedIndex effect sets
\* is rendered next, and only then seen by the redraw effect.
CommitUpdate(S0, S1, supported) ==
    LET c == Closure(S1)
        A == IF S1.appState # S0.appState
             THEN EffectAppStateCleanup(S1, S0.appState) ELSE S1
        B == IF S1.media # S0.media THEN EffectLoadResources(A, c) ELSE A
        C == IF S1.audioTracks # S0.audioTracks THEN EffectLoadAudio(B) ELSE B
        D == IF S1.previewIndex # S0.previewIndex
             THEN EffectForcedIndex(C, c, S1.previewIndex) ELSE C
        E == IF S1.media # S0.media \/ S1.settings # S0.settings
                \/ S1.manualSeekTime # S0.manualSeekTime
                \/ S1.selectedOverlayId # S0.selectedOverlayId
             THEN EffectRedraw(D, c) ELSE D
        F == IF S1.appState # S0.appState THEN EffectAppState(E, c, supported) ELSE E
    IN  IF F.manualSeekTime # S1.manualSeekTime
        THEN EffectRedraw(F, Closure(F))
        ELSE F

\* VideoPreview is rendered unless appState is COLLAGE (line 1851).
\* Unmounting runs the cleanup; the instance's state and refs are gone, the
\* callbacks it left scheduled find canvasRef.current null and return, and a
\* recorder it created keeps running unless the cleanup stopped it.
Unmount(S, closureAppState) ==
    LET A == EffectAppStateCleanup(S, closureAppState)
    IN  [A EXCEPT
           !.isPlaying = FALSE, !.manualSeekTime = Null, !.currentMediaIndex = 0,
           !.elapsed = Null, !.totalLoopDurationRef = 0, !.imagesRef = << >>,
           !.rafQueue = << >>, !.loads = << >>,
           !.recorders = [i \in DOMAIN @ |-> [@[i] EXCEPT !.mounted = FALSE]],
           !.mediaRecorderRef = 0, !.audioContextRef = "null",
           !.sourceNodesRef = << >>, !.gainNodesRef = 0, !.audioBuffersRef = << >>,
           !.exportedClock = Null,
           !.selectedOverlayId = NoOverlay, !.previewInteractionMode = "NONE",
           !.previewDragStartPos = [x |-> 0, y |-> 0],
           !.initialOverlayState = NoItemState]

\* Mounting a fresh instance runs every effect once
Mount(S, supported) ==
    LET c == Closure(S)
        B == EffectLoadResources(S, c)
        C == EffectLoadAudio(B)
        D == EffectForcedIndex(C, c, S.previewIndex)
        E == EffectRedraw(D, c)
        F == EffectAppState(E, c, supported)
    IN  IF F.manualSeekTime # S.manualSeekTime
        THEN EffectRedraw(F, Closure(F))
        ELSE F

\* A change of App state handed down to VideoPreview
Commit(S0, S1, supported) ==
    IF S0.appState = "COLLAGE"
    THEN (IF S1.appState = "COLLAGE" THEN S1 ELSE Mount(S1, supported))
    ELSE IF S1.appState = "COLLAGE" THEN Unmount(S1, S0.appState)
    ELSE CommitUpdate(S0, S1, supported)

----------------------------------------------------------------------------
\* The collage editor (src/unnamed/part_000, component CollageGenerator)
\*
\* Canvas coordinates and item sizes are whole pixels.  item.scale is kept in
\* tenths (10 stands for 1.0); a quotient that becomes a scale is rounded
\* down to a tenth.  item.rotation is kept in quarter turns (1 stands for
\* Math.PI / 2), so that cos and sin are exact.  The geometry of the hit
\* test and of the drawing is computed in twentieths of a pixel, the unit in
\* which half of a scaled extent is a whole number.

WIDTH == 960
HEIGHT == 720
HANDLE_SIZE == 12
rotHandleDist == 25


\* selectedItemId === null
NoSelection == ""

\* No setTimeout callback of handleSaveInternal is pending
NoTimer == [armed |-> FALSE]

\* ctx.measureText(text).width with the item's font
MeasureText(text) == IF text = "" THEN 0 ELSE 400
TextCatalog == {"My Memories", ""}

\* lineHeight * lines.length, with fontSize 60 and one line
LineHeight == (60 * 12) \div 10

\* The item resetCanvas puts on an empty canvas
TitleItem ==
    [id |-> "title", type |-> "text", text |-> "My Memories",
     x |-> WIDTH \div 2, y |-> HEIGHT \div 10, width |-> 0, height |-> 0,
     scale |-> 10, rotation |-> 0, zIndex |-> 1000,
     backgroundColor |-> FALSE, backgroundPadding |-> 0,
     imgOffset |-> [x |-> 0, y |-> 0]]

\* The natural size of the photos of the media library
PhotoSize == [width |-> 600, height |-> 400]

\* Math.random() * (WIDTH - w), Math.random() * (HEIGHT - h)
Placements == {[x |-> 100, y |-> 300], [x |-> 200, y |-> 300]}

\* The item toggleImageOnCanvas adds for a photo that is not on the canvas
NewPhotoItem(id, img, place, prev) ==
    LET w == IF img.width >= img.height THEN 300 ELSE (img.width * 300) \div img.height
        h == IF img.width >= img.height THEN (img.height * 300) \div img.width ELSE 300
    IN  [id |-> id, type |-> "image", text |-> "", x |-> place.x, y |-> place.y,
         width |-> w, height |-> h, scale |-> 10, rotation |-> 0,
         zIndex |-> Len(prev) + 1,
         backgroundColor |-> FALSE, backgroundPadding |-> 0,
         imgOffset |-> [x |-> 0, y |-> 0]]

\* The item addEffectItem adds (REC_FRAME: 200 x 200, centred)
NewEffectItem(id, items) ==
    [id |-> id, type |-> "effect", text |-> "",
     x |-> WIDTH \div 2 - 200 \div 2, y |-> HEIGHT \div 2 - 200 \div 2,
     width |-> 200, height |-> 200, scale |-> 10, rotation |-> 0,
     zIndex |-> Len(items) + 10,
     backgroundColor |-> FALSE, backgroundPadding |-> 0,
     imgOffset |-> [x |-> 0, y |-> 0]]

\* Math.cos and Math.sin of a whole number of quarter turns
Cos4(q) == CASE q % 4 = 0 -> 1 [] q % 4 = 2 -> -1 [] OTHER -> 0
Sin4(q) == CASE q % 4 = 1 -> 1 [] q % 4 = 3 -> -1 [] OTHER -> 0

\* A canvas position in twentieths of a pixel
Px(pos) == [x |-> 20 * pos.x, y |-> 20 * pos.y]

\* drawFrame, lines 272-275: the pad of the box an item is drawn in
DrawPad(item) ==
    IF item.type = "text" /\ item.backgroundColor THEN item.backgroundPadding ELSE 0

\* handleMouseDown, lines 501 and 536: the pad of the box it tests
HitPad(item) ==
    IF item.type = "text" THEN item.backgroundPadding ELSE 0

\* drawFrame, lines 277-289 (and the selection outline, lines 444-453): the
\* canvas position at which the point (u, v) of the item's box is drawn
\* with pad p; (0, 0) is the top-left corner and (w + 2p, h + 2p) the
\* bottom-right corner of the box
DrawnAt(item, p, u, v) ==
    LET halfW == (item.width + 2 * p) * item.scale
        halfH == (item.height + 2 * p) * item.scale
        cx == 20 * item.x + halfW
        cy == 20 * item.y + halfH
        ox == item.scale * (2 * u - (item.width + 2 * p))
        oy == item.scale * (2 * v - (item.height + 2 * p))
    IN  [x |-> cx + ox * Cos4(item.rotation) - oy * Sin4(item.rotation),
         y |-> cy + ox * Sin4(item.rotation) + oy * Cos4(item.rotation)]

\* drawFrame, lines 277-293: the canvas position at which the point (u, v)
\* of the item's content is drawn, the content starting at (p, p) of the box
ContentDrawnAt(item, u, v) ==
    DrawnAt(item, DrawPad(item), u + DrawPad(item), v + DrawPad(item))

\* renderCollageFrame (VideoPreview.tsx lines 572-658) and drawEffect (lines
\* 316-322): the position in the 960 x 720 collage at which the timeline
\* draws the point (u, v) of the item's content.  An image is translated to
\* (x, y) and scaled; a text is padded by backgroundPadding || 0.
renderCollageFrame(item, u, v) ==
    CASE item.type = "image" ->
           [x |-> 20 * item.x + 2 * item.scale * u,
            y |-> 20 * item.y + 2 * item.scale * v]
      [] item.type = "text" ->
           DrawnAt(item, item.backgroundPadding,
                   u + item.backgroundPadding, v + item.backgroundPadding)
      [] OTHER -> DrawnAt(item, 0, u, v)

\* drawFrame, lines 444-453: the canvas position of the point at the offset
\* (ox, oy) from the centre of the selection outline, the offset being given
\* in the item's rotated frame, in twentieths of a pixel of the canvas
DrawnFromCentre(item, p, ox, oy) ==
    [x |-> 20 * item.x + (item.width + 2 * p) * item.scale
              + ox * Cos4(item.rotation) - oy * Sin4(item.rotation),
     y |-> 20 * item.y + (item.height + 2 * p) * item.scale
              + ox * Sin4(item.rotation) + oy * Cos4(item.rotation)]

\* drawFrame, lines 468-470: the centre of the rotation grip, rotHandleDist
\* above the middle of the outline's top edge
GripDrawnAt(item) ==
    DrawnFromCentre(item, DrawPad(item), 0,
                    0 - (item.height + 2 * DrawPad(item)) * item.scale - 20 * rotHandleDist)

\* drawFrame, lines 462-467: the centre of the resize handle, the
\* bottom-right corner of the outline
ResizeDrawnAt(item) ==
    DrawnFromCentre(item, DrawPad(item),
                    (item.width + 2 * DrawPad(item)) * item.scale,
                    (item.height + 2 * DrawPad(item)) * item.scale)

\* drawFrame, lines 455-460: the centres of the four crop handles of an image
CropDrawnAt(item, mode) ==
    LET halfW == item.width * item.scale
        halfH == item.height * item.scale
    IN  CASE mode = "CROP_TL" -> DrawnFromCentre(item, 0, 0 - halfW, 0 - halfH)
          [] mode = "CROP_TR" -> DrawnFromCentre(item, 0, halfW, 0 - halfH)
          [] mode = "CROP_BL" -> DrawnFromCentre(item, 0, 0 - halfW, halfH)
          [] OTHER -> DrawnFromCentre(item, 0, halfW, halfH)

\* drawFrame, lines 465-470: the radius the handles are drawn with,
\* (HANDLE_SIZE / item.scale) under ctx.scale(item.scale)
DrawnRadius == 20 * HANDLE_SIZE

\* handleMouseDown, line 517: HANDLE_SIZE * 1.5
HitRadius == (HANDLE_SIZE * 3 * 20) \div 2

\* The mutation of the inverse rotation: the pointer is rotated by +angle
RotateForward(dx, dy, angle) ==
    [x |-> dx * Cos4(angle) - dy * Sin4(angle),
     y |-> dx * Sin4(angle) + dy * Cos4(angle)]

\* handleMouseDown, lines 512-513 and 547-548: the pointer offset rotated by
\* -angle into the item's frame
RotateBack(dx, dy, angle) ==
    [x |-> dx * Cos4(-angle) - dy * Sin4(-angle),
     y |-> dx * Sin4(-angle) + dy * Cos4(-angle)]

\* handleMouseDown, lines 501-516 and 536-548: the pointer P in the frame of
\* the item's box of pad p
HitLocal(item, p, P) ==
    LET totalW == (item.width + 2 * p) * item.scale * 2
        totalH == (item.height + 2 * p) * item.scale * 2
        halfW == totalW \div 2
        halfH == totalH \div 2
        cx == 20 * item.x + halfW
        cy == 20 * item.y + halfH
        local == RotateBack(P.x - cx, P.y - cy, item.rotation)
    IN  [totalW |-> totalW, totalH |-> totalH, halfW |-> halfW, halfH |-> halfH,
         cx |-> cx, cy |-> cy, localDx |-> local.x, localDy |-> local.y,
         localX |-> local.x + halfW, localY |-> local.y + halfH]

\* Math.hypot(a, b) <= r
WithinRadius(a, b, r) == a * a + b * b <= r * r

Abs(v) == IF v < 0 THEN -v ELSE v

\* The canvas position P lies within r of the canvas position Q
Near(P, Q, r) == WithinRadius(P.x - Q.x, P.y - Q.y, r)

\* drawFrame, lines 457 and 464: the canvas position P lies on the outlined
\* box of the item (its sides are parallel to the axes of the canvas)
OnDrawnBox(item, P) ==
    LET p == DrawPad(item)
        a == DrawnAt(item, p, 0, 0)
        b == DrawnAt(item, p, item.width + 2 * p, item.height + 2 * p)
    IN  /\ Min(a.x, b.x) <= P.x /\ P.x <= Max(a.x, b.x)
        /\ Min(a.y, b.y) <= P.y /\ P.y <= Max(a.y, b.y)

\* handleMouseDown, lines 517-530: the handle of the selected item under the
\* pointer P, as the interaction it starts ("NONE": no handle).  With a
\* scale that is not a number every comparison of the source is false.
HandleNever(item, cropping, P) == "NONE"

HandleAt(item, cropping, P) ==
    LET h == HitLocal(item, HitPad(item), P)
        hSize == HitRadius
        grip == 20 * rotHandleDist
    IN  IF ~IsNumber(item.scale) THEN "NONE"
        ELSE IF WithinRadius(h.localX - h.halfW, h.localY + grip, hSize) THEN "ROTATE"
        ELSE IF cropping /\ item.type = "image"
        THEN IF WithinRadius(h.localX, h.localY, hSize) THEN "CROP_TL"
             ELSE IF WithinRadius(h.localX - h.totalW, h.localY, hSize) THEN "CROP_TR"
             ELSE IF WithinRadius(h.localX, h.localY - h.totalH, hSize) THEN "CROP_BL"
             ELSE IF WithinRadius(h.localX - h.totalW, h.localY - h.totalH, hSize)
                  THEN "CROP_BR"
             ELSE IF /\ h.localX >= 0 /\ h.localX <= h.totalW
                     /\ h.localY >= 0 /\ h.localY <= h.totalH THEN "CROP_PAN"
             ELSE "NONE"
        ELSE IF WithinRadius(h.localX - h.totalW, h.localY - h.totalH, hSize)
             THEN "RESIZE"
        ELSE "NONE"

\* handleMouseDown, line 550: the pointer is on the body of the item
BodyContains(item, P) ==
    LET h == HitLocal(item, HitPad(item), P)
    IN  /\ IsNumber(item.scale)
        /\ Abs(h.localDx) <= h.halfW
        /\ Abs(h.localDy) <= h.halfH

\* handleMouseDown, lines 534-557: the index in items of the first item of
\* [...canvasItems].sort((a, b) => b.zIndex - a.zIndex) whose body holds the
\* pointer (0: none).  The sort is stable: of two items with the same zIndex
\* the one inserted first comes first.
BodyHit(items, P) ==
    LET hits == {i \in DOMAIN items : BodyContains(items[i], P)}
    IN  IF hits = {} THEN 0
        ELSE CHOOSE i \in hits : \A j \in hits :
                \/ items[j].zIndex < items[i].zIndex
                \/ items[j].zIndex = items[i].zIndex /\ i <= j

\* drawFrame, lines 262-267: of the items with index in among, the one drawn
\* last by [...itemsRef.current].sort((a, b) => a.zIndex - b.zIndex).forEach
DrawnLast(items, among) ==
    CHOOSE i \in among : \A j \in among :
        \/ items[j].zIndex < items[i].zIndex
        \/ items[j].zIndex = items[i].zIndex /\ j <= i

\* Math.max(...prev.map(i => i.zIndex))
MaxZ(prev) ==
    CHOOSE z \in {prev[i].zIndex : i \in DOMAIN prev} :
        \A i \in DOMAIN prev : prev[i].zIndex <= z

\* The mutation of the promotion: the item gets maxZ, not maxZ + 1
PromoteToMax(prev, id) ==
    [i \in DOMAIN prev |->
        IF prev[i].id = id THEN [prev[i] EXCEPT !.zIndex = MaxZ(prev)] ELSE prev[i]]

\* handleMouseDown, line 554: the updater passed to setCanvasItems
PromoteZ(prev, id) ==
    [i \in DOMAIN prev |->
        IF prev[i].id = id THEN [prev[i] EXCEPT !.zIndex = MaxZ(prev) + 1] ELSE prev[i]]

\* The mutation of the removal: nothing is removed
RemoveNothing(prev, id) == prev

\* prev.filter(i => i.id !== id), lines 180 and 715
RemoveItem(prev, id) == SelectSeq(prev, LAMBDA i : i.id # id)

\* canvasItems.find(i => i.id === id): its index in items (0: undefined)
FindItem(items, id) ==
    IF \E i \in DOMAIN items : items[i].id = id
    THEN CHOOSE i \in DOMAIN items :
            items[i].id = id /\ \A j \in DOMAIN items : items[j].id = id => i <= j
    ELSE 0

\* The editor's state at mount, after resetCanvas has run (lines 64-78 and
\* 104-135), and the state kept for it while it is not mounted
CollageMounted ==
    [canvasItems |-> << TitleItem >>, selectedItemId |-> NoSelection,
     isCropping |-> FALSE, interactionMode |-> "NONE",
     dragStartPos |-> [x |-> 0, y |-> 0], initialItemState |-> NoItemState,
     editingCollageId |-> 0, saveTimer |-> NoTimer, shownSelection |-> FALSE]

CollageUnmounted ==
    [CollageMounted EXCEPT !.canvasItems = << >>]

CollageIs(C) ==
    /\ canvasItems = C.canvasItems /\ selectedItemId = C.selectedItemId
    /\ isCropping = C.isCropping /\ interactionMode = C.interactionMode
    /\ dragStartPos = C.dragStartPos /\ initialItemState = C.initialItemState
    /\ editingCollageId = C.editingCollageId /\ saveTimer = C.saveTimer
    /\ shownSelection = C.shownSelection

CollageBecomes(C) ==
    /\ canvasItems' = C.canvasItems /\ selectedItemId' = C.selectedItemId
    /\ isCropping' = C.isCropping /\ interactionMode' = C.interactionMode
    /\ dragStartPos' = C.dragStartPos /\ initialItemState' = C.initialItemState
    /\ editingCollageId' = C.editingCollageId /\ saveTimer' = C.saveTimer
    /\ shownSelection' = C.shownSelection

\* The state of the editor's save: the collage being edited, the pending
\* timer, and what the canvas shows
saveVars == << editingCollageId, saveTimer, shownSelection >>

collageVars == << canvasItems, selectedItemId, isCropping, interactionMode,
                  dragStartPos, initialItemState, editingCollageId, saveTimer,
                  shownSelection >>

\* App renders CollageGenerator only while appState is COLLAGE (line 1851):
\* the editor is mounted afresh when the app enters COLLAGE and unmounted
\* when it leaves
CollageFollows(nextAppState) ==
    IF nextAppState = "COLLAGE"
    THEN IF appState = "COLLAGE" THEN UNCHANGED collageVars
         ELSE CollageBecomes(CollageMounted)
    ELSE CollageBecomes(CollageUnmounted)

----------------------------------------------------------------------------
\* setupAudioGraph: the automation of the ducking gain (lines 916-930).
\* Times are in milliseconds of the audio context, gains in 1/3000.

GainOne == 3000          \* the gain 1
GainDucked == 600        \* the gain 0.2
DuckRampMs == 300        \* the 0.3 s of each ramp

\* AudioParam: an event is put after the events scheduled for the same or an
\* earlier time
InsertEvent(events, ev) ==
    LET before == SelectSeq(events, LAMBDA x : x.time <= ev.time)
        after == SelectSeq(events, LAMBDA x : x.time > ev.time)
    IN  before \o << ev >> \o after

setValueAtTime(events, value, time) ==
    InsertEvent(events, [kind |-> "set", value |-> value, time |-> time])

linearRampToValueAtTime(events, value, time) ==
    InsertEvent(events, [kind |-> "ramp", value |-> value, time |-> time])

\* The mutation of the ducking: the gain is not held at 0.2 until
\* duckEnd - 0.3, the ramp back to 1 starts where the ramp down ended
RECURSIVE DuckingWithoutHold(_, _, _, _, _)
DuckingWithoutHold(mediaList, s, i, currentTime, events) ==
    IF i > Len(mediaList) THEN events
    ELSE LET m == mediaList[i]
             d == SlideDurationMs(m, s)
             duckStart == Max(0, currentTime)
             duckEnd == currentTime + d
             e1 == setValueAtTime(events, GainOne, duckStart)
             e2 == linearRampToValueAtTime(e1, GainDucked, duckStart + DuckRampMs)
             e4 == linearRampToValueAtTime(e2, GainOne, duckEnd)
         IN  DuckingWithoutHold(mediaList, s, i + 1, currentTime + d,
                 IF m.type = "video" /\ m.enableOriginalAudio /\ ~m.missing
                 THEN e4 ELSE events)

\* mediaList.forEach(m => { ... }), lines 919-930, from slide i on
RECURSIVE Ducking(_, _, _, _, _)
Ducking(mediaList, s, i, currentTime, events) ==
    IF i > Len(mediaList) THEN events
    ELSE LET m == mediaList[i]
             d == SlideDurationMs(m, s)
             duckStart == Max(0, currentTime)
             duckEnd == currentTime + d
             e1 == setValueAtTime(events, GainOne, duckStart)
             e2 == linearRampToValueAtTime(e1, GainDucked, duckStart + DuckRampMs)
             e3 == setValueAtTime(e2, GainDucked, duckEnd - DuckRampMs)
             e4 == linearRampToValueAtTime(e3, GainOne, duckEnd)
         IN  Ducking(mediaList, s, i + 1, currentTime + d,
                 IF m.type = "video" /\ m.enableOriginalAudio /\ ~m.missing
                 THEN e4 ELSE events)

\* The events setupAudioGraph schedules on duckingGain.gain (lines 917-930)
DuckingEvents(mediaList, s) ==
    Ducking(mediaList, s, 1, 0, setValueAtTime(<< >>, GainOne, 0))

\* AudioParam: the value at time t of a parameter with these events; a
\* ramp runs from the event before it to its own time and value
ValueAtTime(events, t) ==
    LET past == {k \in DOMAIN events : events[k].time <= t}
        prev == CHOOSE k \in past : \A j \in past : j <= k
        next == prev + 1
    IN  IF past = {} THEN GainOne
        ELSE IF next \in DOMAIN events /\ events[next].kind = "ramp"
        THEN events[prev].value
             + ((events[next].value - events[prev].value) * (t - events[prev].time))
                   \div (events[next].time - events[prev].time)
        ELSE events[prev].value

----------------------------------------------------------------------------
\* Initial state: App in IDLE with an empty timeline, VideoPreview mounted

InitialSettings == [photoDuration |-> 3, transitionDuration |-> 1]

Fresh ==
    [appState |-> "IDLE", media |-> << >>, settings |-> InitialSettings,
     previewIndex |-> Null, videoUrl |-> Null, audioTracks |-> << >>,
     isPlaying |-> FALSE, manualSeekTime |-> Null, currentMediaIndex |-> 0,
     elapsed |-> Null, totalLoopDurationRef |-> 0, imagesRef |-> << >>,
     rafQueue |-> << >>, loads |-> << >>, recorders |-> << >>,
     mediaRecorderRef |-> 0, audioContextRef |-> "null",
     sourceNodesRef |-> << >>, gainNodesRef |-> 0, audioBuffersRef |-> << >>,
     frame |-> NoFrame, exportedClock |-> Null,
     selectedMediaId |-> Null, selectedOverlayId |-> NoOverlay,
     previewInteractionMode |-> "NONE", previewDragStartPos |-> [x |-> 0, y |-> 0],
     initialOverlayState |-> NoItemState,
     orphanContexts |-> 0]

vars == << appState, media, settings, previewIndex, videoUrl, audioTracks,
           isPlaying, manualSeekTime, currentMediaIndex, elapsed,
           totalLoopDurationRef, imagesRef, rafQueue, loads, recorders,
           mediaRecorderRef, audioContextRef, sourceNodesRef, gainNodesRef,
           audioBuffersRef, frame, exportedClock,
           selectedMediaId, selectedOverlayId, previewInteractionMode,
           previewDragStartPos, initialOverlayState, orphanContexts,
           canvasItems, selectedItemId, isCropping, interactionMode,
           dragStartPos, initialItemState, editingCollageId, saveTimer,
           shownSelection >>

StateIs(S) ==
    /\ appState = S.appState /\ media = S.media /\ settings = S.settings
    /\ previewIndex = S.previewIndex /\ videoUrl = S.videoUrl
    /\ audioTracks = S.audioTracks /\ isPlaying = S.isPlaying
    /\ manualSeekTime = S.manualSeekTime /\ currentMediaIndex = S.currentMediaIndex
    /\ elapsed = S.elapsed /\ totalLoopDurationRef = S.totalLoopDurationRef
    /\ imagesRef = S.imagesRef /\ rafQueue = S.rafQueue /\ loads = S.loads
    /\ recorders = S.recorders /\ mediaRecorderRef = S.mediaRecorderRef
    /\ audioContextRef = S.audioContextRef /\ sourceNodesRef = S.sourceNodesRef
    /\ gainNodesRef = S.gainNodesRef /\ audioBuffersRef = S.audioBuffersRef
    /\ frame = S.frame /\ exportedClock = S.exportedClock
    /\ selectedMediaId = S.selectedMediaId /\ selectedOverlayId = S.selectedOverlayId
    /\ previewInteractionMode = S.previewInteractionMode
    /\ previewDragStartPos = S.previewDragStartPos
    /\ initialOverlayState = S.initialOverlayState
    /\ orphanContexts = S.orphanContexts
    /\ CollageIs(IF S.appState = "COLLAGE" THEN CollageMounted ELSE CollageUnmounted)

\* The state of App and VideoPreview becomes S, provided it stays within the
\* bounds of the model
AppBecomes(S) ==
    /\ Len(S.rafQueue) <= MaxPending
    /\ Len(S.loads) <= MaxLoads
    /\ Len(S.recorders) <= MaxRecorders
    /\ appState' = S.appState /\ media' = S.media /\ settings' = S.settings
    /\ previewIndex' = S.previewIndex /\ videoUrl' = S.videoUrl
    /\ audioTracks' = S.audioTracks /\ isPlaying' = S.isPlaying
    /\ manualSeekTime' = S.manualSeekTime /\ currentMediaIndex' = S.currentMediaIndex
    /\ elapsed' = S.elapsed /\ totalLoopDurationRef' = S.totalLoopDurationRef
    /\ imagesRef' = S.imagesRef /\ rafQueue' = S.rafQueue /\ loads' = S.loads
    /\ recorders' = S.recorders /\ mediaRecorderRef' = S.mediaRecorderRef
    /\ audioContextRef' = S.audioContextRef /\ sourceNodesRef' = S.sourceNodesRef
    /\ gainNodesRef' = S.gainNodesRef /\ audioBuffersRef' = S.audioBuffersRef
    /\ frame' = S.frame /\ exportedClock' = S.exportedClock
    /\ selectedMediaId' = S.selectedMediaId /\ selectedOverlayId' = S.selectedOverlayId
    /\ previewInteractionMode' = S.previewInteractionMode
    /\ previewDragStartPos' = S.previewDragStartPos
    /\ initialOverlayState' = S.initialOverlayState
    /\ orphanContexts' = S.orphanContexts

\* The next state is S, the collage editor following appState
Becomes(S) ==
    /\ AppBecomes(S)
    /\ CollageFollows(S.appState)

Init == StateIs(Mount(Fresh, TRUE))

----------------------------------------------------------------------------
\* App handlers

\* handleMediaUpload with one file: a missing slide of the same file name is
\* restored, and the new item is appended
HandleMediaUpload(item) ==
    /\ appState # "COLLAGE"
    /\ Len(media) < MaxSlides
    /\ LET S0 == State
           updated == [i \in DOMAIN media |->
                         IF media[i].missing /\ media[i].fileName = item.fileName
                         THEN [media[i] EXCEPT !.previewUrl = item.previewUrl,
                                               !.missing = FALSE]
                         ELSE media[i]]
           S1 == [S0 EXCEPT
                    !.media = Append(updated, [item EXCEPT !.id = FreshId(updated)]),
                    !.appState = IF @ = "FINISHED" THEN "IDLE" ELSE @,
                    !.videoUrl = IF S0.appState = "FINISHED" THEN Null ELSE @]
       IN  Becomes(Commit(S0, S1, TRUE))

\* handleAudioUpload with one file
HandleAudioUpload(track) ==
    /\ appState # "COLLAGE"
    /\ Len(audioTracks) < MaxTracks
    /\ LET S0 == State
           S1 == [S0 EXCEPT !.audioTracks = Append(@, track)]
       IN  Becomes(Commit(S0, S1, TRUE))

HandleStartCollage ==
    /\ appState = "IDLE"
    /\ Len(media) # 0
    /\ Becomes(Commit(State, [State EXCEPT !.appState = "COLLAGE"], TRUE))

\* setMedia(prev => ...) of handleCollageSave (lines 1555-1567): the collage
\* being edited is replaced where it stands; otherwise the new collage is put
\* first and the slides named by selectedIds are taken out.  existingId = 0
\* stands for undefined.
handleCollageSave(prev, selectedIds, photos, existingId) ==
    LET collageItem == [Collage EXCEPT !.id = IF existingId # 0 THEN existingId
                                              ELSE FreshCollageId(prev),
                                       !.collagePhotos = photos]
    IN  IF existingId # 0 /\ \E i \in DOMAIN prev : prev[i].id = existingId
        THEN [i \in DOMAIN prev |->
                 IF prev[i].id = existingId
                 THEN [collageItem EXCEPT !.transition = prev[i].transition]
                 ELSE prev[i]]
        ELSE << collageItem >> \o SelectSeq(prev, LAMBDA m : m.id \notin selectedIds)

\* handleCollageSave for a new collage that consumes no slide of the timeline
\* (selectedIds names no timeline item, existingId is undefined)
HandleCollageSave ==
    /\ appState = "COLLAGE"
    /\ Len(media) < MaxSlides
    /\ Becomes(Commit(State, [State EXCEPT
                  !.media = handleCollageSave(@, {}, << >>, 0)], TRUE))

HandleCollageFinish ==
    /\ appState = "COLLAGE"
    /\ ~ForcedIndexThrows(previewIndex, media)
    /\ Becomes(Commit(State, [State EXCEPT !.appState = "EDITING"], TRUE))

HandleBackToCollage ==
    /\ appState \in {"EDITING", "FINISHED"}
    /\ Becomes(Commit(State, [State EXCEPT !.appState = "COLLAGE"], TRUE))

\* handleRender; supported: whether the runtime can record the canvas
HandleRender(supported) ==
    /\ appState = "EDITING"
    /\ Len(recorders) < MaxRecorders
    /\ Becomes(Commit(State, [State EXCEPT !.appState = "RENDERING",
                                           !.selectedMediaId = Null], supported))

\* toggleVideoAudio(index), index 0-based: the button of a video thumbnail
toggleVideoAudio(index) ==
    /\ appState # "COLLAGE"
    /\ index + 1 \in DOMAIN media
    /\ media[index + 1].type = "video"
    /\ LET S0 == State
           S1 == [S0 EXCEPT !.media[index + 1].enableOriginalAudio = ~@]
       IN  Becomes(Commit(S0, S1, TRUE))

\* removeMedia(index), index 0-based
RemoveMedia(index) ==
    /\ appState # "COLLAGE"
    /\ index + 1 \in DOMAIN media
    /\ LET S0 == State
           S1 == [S0 EXCEPT
                    !.media = SubSeq(@, 1, index) \o SubSeq(@, index + 2, Len(@)),
                    !.selectedMediaId = IF @ = media[index + 1].id THEN Null ELSE @]
       IN  Becomes(Commit(S0, S1, TRUE))

\* The two sliders of the settings panel
SetPhotoDuration(value) ==
    /\ appState \in {"EDITING", "FINISHED"}
    /\ value # settings.photoDuration
    /\ Becomes(Commit(State, [State EXCEPT !.settings.photoDuration = value], TRUE))

SetTransitionDuration(value) ==
    /\ appState \in {"EDITING", "FINISHED"}
    /\ value # settings.transitionDuration
    /\ Becomes(Commit(State, [State EXCEPT !.settings.transitionDuration = value], TRUE))

\* handleSelectMedia(id, index): a click on a thumbnail of the timeline
HandleSelectMedia(index) ==
    /\ appState # "COLLAGE"
    /\ index + 1 \in DOMAIN media
    /\ Becomes(Commit(State, [State EXCEPT !.previewIndex = index,
                                           !.selectedMediaId = media[index + 1].id], TRUE))

reset ==
    /\ appState # "IDLE"
    /\ LET S0 == State
           S1 == [S0 EXCEPT !.media = << >>, !.audioTracks = << >>,
                            !.videoUrl = Null, !.appState = "IDLE",
                            !.selectedMediaId = Null]
       IN  Becomes(Commit(S0, S1, TRUE))

\* handleLoadProject with a well-formed project file
RestoreMedia(m) ==
    IF m.collageData
    THEN [m EXCEPT !.type = "image", !.previewUrl = "ok", !.missing = FALSE]
    ELSE [m EXCEPT !.previewUrl = "", !.missing = TRUE]

HandleLoadProject(project) ==
    /\ appState = "COLLAGE" => ~ForcedIndexThrows(previewIndex, project.media)
    /\ LET S0 == State
           S1 == [S0 EXCEPT
                    !.settings = project.settings,
                    !.media = [i \in DOMAIN project.media |-> RestoreMedia(project.media[i])],
                    !.audioTracks = [i \in DOMAIN project.audioTracks |->
                                        [project.audioTracks[i] EXCEPT !.missing = TRUE]],
                    !.appState = "EDITING"]
       IN  Becomes(Commit(S0, S1, TRUE))

\* A project file handed to handleLoadProject: whether JSON.parse accepts it,
\* and the first required field the parsed object lacks, if any
ProjectFiles ==
    [parses : BOOLEAN, lacks : {"nothing", "media", "audioTracks"},
     project : ProjectCatalog]

\* reader.onload of handleLoadProject (lines 1680-1708): the setters called
\* before an exception is thrown have taken effect when the catch block runs
LoadProjectFile(file) ==
    IF file.parses /\ file.lacks = "nothing"
    THEN HandleLoadProject(file.project)
    ELSE /\ (appState = "COLLAGE" /\ file.parses /\ file.lacks = "audioTracks")
                => ~ForcedIndexThrows(previewIndex, file.project.media)
         /\ LET S0 == State
                S1 == IF ~file.parses THEN S0
                      ELSE IF file.lacks = "media"
                      THEN [S0 EXCEPT !.settings = file.project.settings]
                      ELSE [S0 EXCEPT
                              !.settings = file.project.settings,
                              !.media = [i \in DOMAIN file.project.media |->
                                            RestoreMedia(file.project.media[i])]]
            IN  Becomes(Commit(S0, S1, TRUE))

----------------------------------------------------------------------------
\* VideoPreview handlers, callbacks and events

\* The play button (shown while EDITING): onClick = startPlayback
StartPlayback ==
    /\ appState = "EDITING"
    /\ ~isPlaying
    /\ LET S0 == State
       IN  Becomes(CommitUpdate(S0, startPlayback(S0, Closure(S0)), TRUE))

\* The pause button: onClick = stopPlayback
StopPlayback ==
    /\ appState = "EDITING"
    /\ isPlaying
    /\ LET S0 == State
       IN  Becomes(CommitUpdate(S0, stopPlayback(S0, Closure(S0)), TRUE))

\* The browser runs the oldest scheduled frame callback
FrameCallback ==
    /\ Len(rafQueue) > 0
    /\ LET S0 == State
       IN  Becomes(drawFrame([S0 EXCEPT !.rafQueue = Tail(@)], Head(rafQueue).closure))

\* The promises of the oldest loadResources call settle (lines 98-129)
LoadDone ==
    /\ Len(loads) > 0
    /\ LET c == Head(loads)
           S1 == [State EXCEPT
                    !.loads = Tail(@),
                    !.imagesRef = [i \in DOMAIN c.mediaList |-> LoadedResource(c.mediaList[i])]]
       IN  Becomes(IF ~c.isPlaying THEN drawFrame(S1, c) ELSE S1)

\* decodeAudioData of every track (lines 149-163): null for a missing track
DecodedBuffers(tracks) ==
    [i \in DOMAIN tracks |-> IF tracks[i].missing THEN 0 ELSE tracks[i].duration]

\* The decoding started by the effect on [audio] ends
LoadAudioDone ==
    /\ appState # "COLLAGE"
    /\ Len(audioTracks) > 0
    /\ audioBuffersRef # DecodedBuffers(audioTracks)
    /\ Becomes([State EXCEPT !.audioBuffersRef = DecodedBuffers(audioTracks)])

\* recorder.onstop of recorder r (lines 1047-1055), then App's
\* handleRenderingComplete (lines 1583-1587)
RecorderStop(r) ==
    /\ r \in DOMAIN recorders
    /\ recorders[r].stopEvent
    /\ LET S0 == State
           S1 == [S0 EXCEPT
                    !.recorders[r].stopEvent = FALSE,
                    !.videoUrl = r,
                    !.appState = "FINISHED",
                    !.audioContextRef =
                        IF S0.recorders[r].mounted /\ @ = "open" THEN "closed" ELSE @]
       IN  /\ S0.appState = "COLLAGE" => ~ForcedIndexThrows(previewIndex, media)
           /\ Becomes(Commit(S0, S1, TRUE))

\* Time passes
Tick(step) ==
    /\ elapsed # Null
    /\ elapsed < MaxElapsedMs
    /\ Becomes([State EXCEPT !.elapsed = Min(@ + step, MaxElapsedMs)])

----------------------------------------------------------------------------
\* CollageGenerator handlers

appVars == << appState, media, settings, previewIndex, videoUrl, audioTracks,
              isPlaying, manualSeekTime, currentMediaIndex, elapsed,
              totalLoopDurationRef, imagesRef, rafQueue, loads, recorders,
              mediaRecorderRef, audioContextRef, sourceNodesRef, gainNodesRef,
              audioBuffersRef, frame, exportedClock,
              selectedMediaId, selectedOverlayId, previewInteractionMode,
              previewDragStartPos, initialOverlayState, orphanContexts >>

\* The canvas positions a pointer-down is delivered at while a collage is
\* built without drags
ClickCatalog ==
    { [x |-> 300, y |-> 400], [x |-> 150, y |-> 400], [x |-> 450, y |-> 400],
      [x |-> 250, y |-> 275], [x |-> 400, y |-> 500], [x |-> 415, y |-> 500],
      [x |-> 680, y |-> 100], [x |-> 900, y |-> 700] }

\* The canvas positions a pointer event is delivered at (getMousePos)
PointerCatalog ==
    { [x |-> 300, y |-> 400], [x |-> 150, y |-> 400], [x |-> 450, y |-> 400],
      [x |-> 250, y |-> 275], [x |-> 400, y |-> 500], [x |-> 415, y |-> 500],
      [x |-> 100, y |-> 300], [x |-> 250, y |-> 500], [x |-> 680, y |-> 100],
      [x |-> 680, y |-> 47],  [x |-> 880, y |-> 144], [x |-> 480, y |-> 144],
      [x |-> 480, y |-> 300], [x |-> 900, y |-> 700] }

\* The canvas positions of the pointer while the title and a photo are
\* dragged: the body, the grip and the corner of each, and positions the
\* pointer is then moved to
DragCatalog ==
    { [x |-> 680, y |-> 100], [x |-> 680, y |-> 47],  [x |-> 880, y |-> 144],
      [x |-> 480, y |-> 144], [x |-> 480, y |-> 300], [x |-> 300, y |-> 400],
      [x |-> 250, y |-> 275], [x |-> 400, y |-> 500], [x |-> 100, y |-> 300] }

\* The padding values the slider is dragged to (range 0 .. 50)
PaddingCatalog == {0, 20}

\* The panel's controls are reached with the pointer off the canvas, i.e.
\* after onMouseLeave = handleMouseUp
PanelReachable ==
    /\ appState = "COLLAGE"
    /\ interactionMode = "NONE"
    /\ ~initialItemState.held

\* const selectedItem = canvasItems.find(i => i.id === selectedItemId), line 619
SelectedIndex ==
    IF selectedItemId = NoSelection THEN 0 ELSE FindItem(canvasItems, selectedItemId)

\* toggleImageOnCanvas(id, imgObj), lines 172-211
ToggleImageOnCanvas(id, place) ==
    /\ PanelReachable
    /\ IF FindItem(canvasItems, id) # 0
       THEN /\ canvasItems' = RemoveItem(canvasItems, id)
            /\ IF selectedItemId = id
               THEN selectedItemId' = NoSelection /\ isCropping' = FALSE
               ELSE UNCHANGED << selectedItemId, isCropping >>
       ELSE /\ Len(canvasItems) < MaxItems
            /\ canvasItems' =
                  Append(canvasItems, NewPhotoItem(id, PhotoSize, place, canvasItems))
            /\ selectedItemId' = id
            /\ isCropping' = FALSE
    /\ UNCHANGED << interactionMode, dragStartPos, initialItemState >>
    /\ UNCHANGED appVars
    /\ UNCHANGED saveVars

\* addEffectItem(animId), lines 214-238; the id is `effect-${Date.now()}`
AddEffectItem ==
    /\ PanelReachable
    /\ Len(canvasItems) < MaxItems
    /\ FindItem(canvasItems, "effect-1") = 0
    /\ canvasItems' = Append(canvasItems, NewEffectItem("effect-1", canvasItems))
    /\ selectedItemId' = "effect-1"
    /\ isCropping' = FALSE
    /\ UNCHANGED << interactionMode, dragStartPos, initialItemState >>
    /\ UNCHANGED appVars
    /\ UNCHANGED saveVars

\* The delete button of the floating panel, line 715
DeleteSelected ==
    /\ PanelReachable
    /\ SelectedIndex # 0
    /\ canvasItems' = RemoveItem(canvasItems, selectedItemId)
    /\ selectedItemId' = NoSelection
    /\ UNCHANGED << isCropping, interactionMode, dragStartPos, initialItemState >>
    /\ UNCHANGED appVars
    /\ UNCHANGED saveVars

\* The close button of the floating panel, line 716
Deselect ==
    /\ PanelReachable
    /\ SelectedIndex # 0
    /\ selectedItemId' = NoSelection
    /\ UNCHANGED << canvasItems, isCropping, interactionMode, dragStartPos,
                    initialItemState >>
    /\ UNCHANGED appVars
    /\ UNCHANGED saveVars

\* The crop button of the floating panel, lines 710-714
ToggleCropping ==
    /\ PanelReachable
    /\ SelectedIndex # 0
    /\ canvasItems[SelectedIndex].type = "image"
    /\ isCropping' = ~isCropping
    /\ UNCHANGED << canvasItems, selectedItemId, interactionMode, dragStartPos,
                    initialItemState >>
    /\ UNCHANGED appVars
    /\ UNCHANGED saveVars

\* updateSelectedItem(updates), lines 240-243, for the fields of the model
UpdateSelectedItem(field, value) ==
    [i \in DOMAIN canvasItems |->
        IF canvasItems[i].id = selectedItemId
        THEN [canvasItems[i] EXCEPT ![field] = value] ELSE canvasItems[i]]

OnlyItemsChange ==
    /\ UNCHANGED << selectedItemId, isCropping, interactionMode, dragStartPos,
                    initialItemState >>
    /\ UNCHANGED appVars
    /\ UNCHANGED saveVars

\* The background button of a text item, line 780: backgroundColor is
\* toggled and backgroundPadding is set to 10 either way
ToggleBackground ==
    /\ PanelReachable
    /\ SelectedIndex # 0
    /\ canvasItems[SelectedIndex].type = "text"
    /\ canvasItems' =
          [i \in DOMAIN canvasItems |->
              IF canvasItems[i].id = selectedItemId
              THEN [canvasItems[i] EXCEPT !.backgroundColor = ~@,
                                          !.backgroundPadding = 10]
              ELSE canvasItems[i]]
    /\ OnlyItemsChange

\* The padding slider, shown while the text item has a background (lines 785-802)
SetBackgroundPadding(value) ==
    /\ PanelReachable
    /\ SelectedIndex # 0
    /\ canvasItems[SelectedIndex].type = "text"
    /\ canvasItems[SelectedIndex].backgroundColor
    /\ canvasItems' = UpdateSelectedItem("backgroundPadding", value)
    /\ OnlyItemsChange

\* The textarea of a text item, lines 737-746
SetText(text) ==
    /\ PanelReachable
    /\ SelectedIndex # 0
    /\ canvasItems[SelectedIndex].type = "text"
    /\ canvasItems' = UpdateSelectedItem("text", text)
    /\ OnlyItemsChange

\* One run of the editor's drawFrame (lines 246-477), for what it writes to
\* the items: a text item gets the measured size of its text (lines 332-333)
\* and for what it leaves on the canvas: the selection chrome of the selected
\* item (lines 442-472), drawn if an item of the scene has the selected id
CollageDrawFrame ==
    /\ appState = "COLLAGE"
    /\ canvasItems' =
          [i \in DOMAIN canvasItems |->
              IF canvasItems[i].type = "text"
              THEN [canvasItems[i] EXCEPT !.width = MeasureText(canvasItems[i].text),
                                          !.height = LineHeight]
              ELSE canvasItems[i]]
    /\ shownSelection' = (SelectedIndex # 0)
    /\ UNCHANGED << selectedItemId, isCropping, interactionMode, dragStartPos,
                    initialItemState, editingCollageId, saveTimer >>
    /\ UNCHANGED appVars

\* Math.atan2(dy, dx) in quarter turns, for a direction along an axis
Atan2(dy, dx) ==
    CASE dy = 0 /\ dx >= 0 -> 0
      [] dx = 0 /\ dy > 0 -> 1
      [] dy = 0 /\ dx < 0 -> 2
      [] OTHER -> -1

\* The zIndex values a body hit may assign: up to MaxLift above that of a
\* new photo (prev.length + 1), of a new sticker (canvasItems.length + 10)
\* or of the title (1000)
ZRange ==
    (1 .. MaxItems + 1 + MaxLift)
        \cup (10 .. MaxItems + 10 + MaxLift)
        \cup (TitleItem.zIndex .. TitleItem.zIndex + MaxLift)

\* handleMouseDown(e), lines 496-559, with the pointer at pos
MouseDown(pos) ==
    /\ appState = "COLLAGE"
    /\ interactionMode = "NONE"
    /\ LET P == Px(pos)
           sel == SelectedIndex
           handle == IF sel = 0 THEN "NONE" ELSE HandleAt(canvasItems[sel], isCropping, P)
           hit == BodyHit(canvasItems, P)
       IN  IF handle # "NONE"
           THEN LET item == canvasItems[sel]
                    h == HitLocal(item, HitPad(item), P)
                IN  /\ interactionMode' = handle
                    /\ dragStartPos' = pos
                    /\ initialItemState' =
                          [held |-> TRUE, item |-> item,
                           startAngle |-> IF handle = "ROTATE"
                                          THEN [dx |-> P.x - h.cx, dy |-> P.y - h.cy]
                                          ELSE [dx |-> 0, dy |-> 0]]
                    /\ UNCHANGED << canvasItems, selectedItemId, isCropping >>
           ELSE IF hit # 0
           THEN /\ MaxZ(canvasItems) + 1 \in ZRange
                /\ selectedItemId' = canvasItems[hit].id
                /\ isCropping' = IF selectedItemId # canvasItems[hit].id
                                 THEN FALSE ELSE isCropping
                /\ interactionMode' = "MOVE"
                /\ dragStartPos' = pos
                /\ initialItemState' = [held |-> TRUE, item |-> canvasItems[hit],
                                        startAngle |-> [dx |-> 0, dy |-> 0]]
                /\ canvasItems' = PromoteZ(canvasItems, canvasItems[hit].id)
           ELSE /\ selectedItemId' = NoSelection
                /\ isCropping' = FALSE
                /\ interactionMode' = "NONE"
                /\ UNCHANGED << canvasItems, dragStartPos, initialItemState >>
    /\ UNCHANGED appVars
    /\ UNCHANGED saveVars

\* The mutation of the resize: newW / initialItemState.width without the
\* Math.max(0.1, .)
ResizedUnclamped(num, width) ==
    IF width = 0
    THEN IF num = 0 THEN NaN ELSE IF num > 0 THEN Infinity ELSE 0
    ELSE num \div width

\* newW / initialItemState.width after Math.max(0.1, .), in tenths; num is
\* newW in tenths of a pixel (lines 583-584)
ResizedScale(num, width) ==
    IF width = 0
    THEN IF num = 0 THEN NaN ELSE IF num > 0 THEN Infinity ELSE 1
    ELSE Max(1, num \div width)

\* handleMouseMove, lines 567-597: what the updater makes of the selected item
\* (imgOffset is held in half pixels: dW / 2 pixels are dW half pixels)
Dragged(item, mode, init, start, pos) ==
    LET dx == pos.x - start.x
        dy == pos.y - start.y
    IN  CASE mode = "ROTATE" ->
               LET p == HitPad(item)
                   cx == 20 * init.item.x + (item.width + 2 * p) * item.scale
                   cy == 20 * init.item.y + (item.height + 2 * p) * item.scale
                   currentAngle == Atan2(20 * pos.y - cy, 20 * pos.x - cx)
                   startAngle == Atan2(init.startAngle.dy, init.startAngle.dx)
               IN  [item EXCEPT !.rotation = init.item.rotation + (currentAngle - startAngle)]
          [] mode = "MOVE" ->
               [item EXCEPT !.x = init.item.x + dx, !.y = init.item.y + dy]
          [] mode = "RESIZE" ->
               LET localDx == RotateBack(dx, dy, item.rotation).x
                   num == init.item.width * init.item.scale + 10 * localDx
               IN  [item EXCEPT !.scale = ResizedScale(num, init.item.width)]
          [] mode = "CROP_BR" ->
               LET dW == (10 * dx) \div item.scale
                   dH == (10 * dy) \div item.scale
               IN  [item EXCEPT !.width = Max(50, init.item.width + dW),
                                !.height = Max(50, init.item.height + dH),
                                !.imgOffset = [x |-> init.item.imgOffset.x - dW,
                                               y |-> init.item.imgOffset.y - dH]]
          [] mode = "CROP_PAN" ->
               LET dOffsetX == (10 * dx) \div item.scale
                   dOffsetY == (10 * dy) \div item.scale
               IN  [item EXCEPT !.imgOffset = [x |-> init.item.imgOffset.x + 2 * dOffsetX,
                                               y |-> init.item.imgOffset.y + 2 * dOffsetY]]
          [] OTHER -> item

\* The rotation a ROTATE drag computes is a whole number of quarter turns
AlongAxis(item, init, pos) ==
    LET p == HitPad(item)
        cx == 20 * init.item.x + (item.width + 2 * p) * item.scale
        cy == 20 * init.item.y + (item.height + 2 * p) * item.scale
    IN  /\ init.startAngle.dx = 0 \/ init.startAngle.dy = 0
        /\ 20 * pos.x = cx \/ 20 * pos.y = cy

\* The item stays within the part of the plane the model follows it in
WithinArena(item) ==
    /\ item.x >= 0 /\ item.x <= WIDTH
    /\ item.y >= 0 /\ item.y <= HEIGHT
    /\ item.width <= WIDTH /\ item.height <= HEIGHT
    /\ IsNumber(item.scale) => item.scale <= MaxScale
    /\ Abs(item.rotation) <= MaxQuarterTurns
    /\ Abs(item.imgOffset.x) <= MaxPan /\ Abs(item.imgOffset.y) <= MaxPan

\* handleMouseMove(e), lines 561-598, with the pointer at pos
MouseMove(pos) ==
    /\ appState = "COLLAGE"
    /\ interactionMode # "NONE"
    /\ selectedItemId # NoSelection
    /\ initialItemState.held
    /\ \A i \in DOMAIN canvasItems :
          (canvasItems[i].id = selectedItemId /\ interactionMode = "ROTATE")
              => AlongAxis(canvasItems[i], initialItemState, pos)
    /\ canvasItems' =
          [i \in DOMAIN canvasItems |->
              IF canvasItems[i].id = selectedItemId
              THEN Dragged(canvasItems[i], interactionMode, initialItemState,
                           dragStartPos, pos)
              ELSE canvasItems[i]]
    /\ \A i \in DOMAIN canvasItems : WithinArena(canvasItems'[i])
    /\ OnlyItemsChange

\* handleMouseMove(e), lines 561-598, as a function of the state it reads:
\* the items it leaves, the early return of line 562 included
handleMouseMove(items, mode, selected, init, start, pos) ==
    IF mode = "NONE" \/ selected = NoSelection \/ ~init.held THEN items
    ELSE [i \in DOMAIN items |->
             IF items[i].id = selected
             THEN Dragged(items[i], mode, init, start, pos)
             ELSE items[i]]

\* The mutation of handleMouseUp: the snapshot is cleared, the mode is kept
MouseUpKeepsMode ==
    /\ appState = "COLLAGE"
    /\ interactionMode # "NONE" \/ initialItemState.held
    /\ initialItemState' = NoItemState
    /\ UNCHANGED << canvasItems, selectedItemId, isCropping, dragStartPos,
                    interactionMode >>
    /\ UNCHANGED appVars
    /\ UNCHANGED saveVars

\* handleMouseUp, line 600 (onMouseUp and onMouseLeave)
MouseUp ==
    /\ appState = "COLLAGE"
    /\ interactionMode # "NONE" \/ initialItemState.held
    /\ interactionMode' = "NONE"
    /\ initialItemState' = NoItemState
    /\ UNCHANGED << canvasItems, selectedItemId, isCropping, dragStartPos >>
    /\ UNCHANGED appVars
    /\ UNCHANGED saveVars

\* The collages of the timeline, createdCollages (VideoPreview.tsx line 1854)
CreatedCollages == {i \in DOMAIN media : media[i].collageData}

\* resetCanvas(), lines 111-135, as the onClick of the new-collage tile
\* (line 639), which is shown while createdCollages is not empty (line 629)
ResetCanvas ==
    /\ PanelReachable
    /\ CreatedCollages # {}
    /\ canvasItems' = << TitleItem >>
    /\ editingCollageId' = 0
    /\ UNCHANGED << selectedItemId, isCropping, interactionMode, dragStartPos,
                    initialItemState, saveTimer, shownSelection >>
    /\ UNCHANGED appVars

\* The title as drawFrame has measured it
MeasuredTitle ==
    [TitleItem EXCEPT !.width = MeasureText(TitleItem.text), !.height = LineHeight]

\* collageData.items of a saved collage with these photos: the title and the
\* photos, each as it was put on the canvas
RECURSIVE SavedScene(_)
SavedScene(photos) ==
    IF photos = << >> THEN << MeasuredTitle >>
    ELSE LET prev == SavedScene(SubSeq(photos, 1, Len(photos) - 1))
         IN  Append(prev, NewPhotoItem(photos[Len(photos)], PhotoSize,
                                       [x |-> 100, y |-> 300], prev))

\* loadCollage(collage), lines 138-169, with the images rehydrated: the
\* click on the tile of one of the created collages (line 634)
LoadCollage(c) ==
    /\ PanelReachable
    /\ c \in CreatedCollages
    /\ editingCollageId' = media[c].id
    /\ canvasItems' = SavedScene(media[c].collagePhotos)
    /\ selectedItemId' = NoSelection
    /\ isCropping' = FALSE
    /\ UNCHANGED << interactionMode, dragStartPos, initialItemState, saveTimer,
                    shownSelection >>
    /\ UNCHANGED appVars

\* const usedIds = canvasItems.filter(i => i.type === 'image' &&
\* !i.isSticker).map(i => i.id), line 610: the ids of the uploads
UsedIds(photos) == {LibraryId[photos[k]] : k \in DOMAIN photos}

\* The ids of the photos among the items, in their order
PhotosOn(items) ==
    LET images == SelectSeq(items, LAMBDA i : i.type = "image")
    IN  [k \in DOMAIN images |-> images[k].id]

\* handleSaveInternal(finish), lines 602-604 and 617: the selection is
\* cleared and the timer is set; its callback closes over the canvasItems and
\* the editingCollageId of the render the button was pressed in
HandleSaveInternal(finish) ==
    /\ PanelReachable
    /\ ~saveTimer.armed
    /\ selectedItemId' = NoSelection
    /\ isCropping' = FALSE
    /\ saveTimer' = [armed |-> TRUE, finish |-> finish,
                     photos |-> PhotosOn(canvasItems), existingId |-> editingCollageId]
    /\ UNCHANGED << canvasItems, interactionMode, dragStartPos, initialItemState,
                    editingCollageId, shownSelection >>
    /\ UNCHANGED appVars

\* The callback of the timer, lines 604-616, to the end of the toBlob
\* callback: the canvas is captured as it is, App's handleCollageSave stores
\* the collage, and the editor is closed (finish) or its canvas reset
SaveTimerFires ==
    /\ appState = "COLLAGE"
    /\ saveTimer.armed
    /\ LET S0 == State
           saved == handleCollageSave(media, UsedIds(saveTimer.photos),
                                      saveTimer.photos, saveTimer.existingId)
           S1 == [S0 EXCEPT !.media = saved,
                            !.appState = IF saveTimer.finish THEN "EDITING" ELSE @]
       IN  /\ Len(saved) <= MaxSlides
           /\ IF saveTimer.finish
              THEN /\ ~ForcedIndexThrows(previewIndex, S1.media)
                   /\ Becomes(Commit(S0, S1, TRUE))
              ELSE /\ AppBecomes(Commit(S0, S1, TRUE))
                   /\ canvasItems' = << TitleItem >>
                   /\ editingCollageId' = 0
                   /\ saveTimer' = NoTimer
                   /\ UNCHANGED << selectedItemId, isCropping, interactionMode,
                                   dragStartPos, initialItemState, shownSelection >>

\* The state of the app while the collage editor is open on a fresh canvas
InitCollage == StateIs([Mount(Fresh, TRUE) EXCEPT !.appState = "COLLAGE"])

\* The collage editor: every pointer event and panel control of the model
NextCollage ==
    \/ \E id \in PhotoIds, place \in Placements : ToggleImageOnCanvas(id, place)
    \/ AddEffectItem
    \/ DeleteSelected
    \/ Deselect
    \/ ToggleCropping
    \/ ToggleBackground
    \/ \E value \in PaddingCatalog : SetBackgroundPadding(value)
    \/ \E text \in TextCatalog : SetText(text)
    \/ CollageDrawFrame
    \/ \E pos \in PointerCatalog : MouseDown(pos)
    \/ \E pos \in PointerCatalog : MouseMove(pos)
    \/ MouseUp

SpecCollage == InitCollage /\ [][NextCollage]_vars

\* Building a collage with the panel and pointer-downs, without drags
NextSelect ==
    \/ \E id \in PhotoIds, place \in Placements : ToggleImageOnCanvas(id, place)
    \/ AddEffectItem
    \/ DeleteSelected
    \/ Deselect
    \/ ToggleCropping
    \/ CollageDrawFrame
    \/ \E pos \in ClickCatalog : MouseDown(pos)
    \/ MouseUp

SpecSelect == InitCollage /\ [][NextSelect]_vars

\* Building, saving, loading and starting collages anew
NextScene ==
    \/ ToggleImageOnCanvas("p1", [x |-> 100, y |-> 300])
    \/ DeleteSelected
    \/ \E pos \in ClickCatalog : MouseDown(pos)
    \/ MouseUp
    \/ ResetCanvas
    \/ \E c \in 1 .. MaxSlides : LoadCollage(c)
    \/ \E finish \in BOOLEAN : HandleSaveInternal(finish)
    \/ SaveTimerFires
    \/ HandleBackToCollage

SpecScene == InitCollage /\ [][NextScene]_vars

\* A pointer move while a handle is held (the pointer is not moved between
\* the pointer-down and the pointer-up of a click on a body)
DragHandle(pos) ==
    /\ interactionMode \notin {"MOVE", "CROP_PAN"}
    /\ MouseMove(pos)

\* Editing the title and one photo, and dragging their handles
NextDrag ==
    \/ \E place \in Placements : ToggleImageOnCanvas("p1", place)
    \/ ToggleCropping
    \/ ToggleBackground
    \/ \E text \in TextCatalog : SetText(text)
    \/ CollageDrawFrame
    \/ \E pos \in DragCatalog : MouseDown(pos)
    \/ \E pos \in DragCatalog : DragHandle(pos)
    \/ MouseUp

SpecDrag == InitCollage /\ [][NextDrag]_vars

\* The positions a body is dragged to
MoveCatalog == {[x |-> 300, y |-> 400], [x |-> 480, y |-> 300]}

\* A pointer move while a body is held
DragBody(pos) ==
    /\ interactionMode = "MOVE"
    /\ MouseMove(pos)

\* The pointer comes back to the position of the pointer-down
MouseReturn == MouseMove(dragStartPos)

\* Drags of bodies and handles that come back to where they started
NextReturn ==
    \/ \E place \in Placements : ToggleImageOnCanvas("p1", place)
    \/ \E text \in TextCatalog : SetText(text)
    \/ CollageDrawFrame
    \/ \E pos \in DragCatalog : MouseDown(pos)
    \/ \E pos \in DragCatalog : DragHandle(pos)
    \/ \E pos \in MoveCatalog : DragBody(pos)
    \/ MouseReturn
    \/ MouseUp

SpecReturn == InitCollage /\ [][NextReturn]_vars

----------------------------------------------------------------------------
\* The frame computation alone: a loaded timeline, and one frame drawn for
\* each driver of the clock

Timelines ==
    UNION { [1 .. n -> FrameCatalog] : n \in 1 .. MaxFrameSlides }

InitFrame ==
    \E mediaList \in Timelines, s \in SettingsCatalog :
        StateIs([Fresh EXCEPT
                   !.appState = "EDITING", !.media = mediaList, !.settings = s,
                   !.imagesRef = [i \in DOMAIN mediaList |-> LoadedResource(mediaList[i])]])

\* The frame a drawFrame closure c draws at elapsed time el
FrameOf(c, el) ==
    LET totalDuration == calculateTotalDuration(c.mediaList, c.settings)
    IN  [RenderPipeline(c.appState, c.mediaList, c.settings, imagesRef,
                        LoopTime(c, el, totalDuration))
           EXCEPT !.isPlaying = c.isPlaying, !.elapsed = el]

OnlyFrameChanges ==
    UNCHANGED << appState, media, settings, previewIndex, videoUrl, audioTracks,
                 isPlaying, manualSeekTime, currentMediaIndex, elapsed,
                 totalLoopDurationRef, imagesRef, rafQueue, loads, recorders,
                 mediaRecorderRef, audioContextRef, sourceNodesRef, gainNodesRef,
                 audioBuffersRef, exportedClock, selectedMediaId,
                 selectedOverlayId, previewInteractionMode, previewDragStartPos,
                 initialOverlayState, orphanContexts, canvasItems, selectedItemId,
                 isCropping, interactionMode, dragStartPos, initialItemState,
                 editingCollageId, saveTimer, shownSelection >>

\* A paused frame at the seek position t (lines 221-223)
SeekFrame(t) ==
    /\ frame' = FrameOf([Closure(State) EXCEPT !.manualSeekTime = t], 0)
    /\ OnlyFrameChanges

\* A frame of live playback at elapsed time el (lines 219-220)
PlaybackFrame(el) ==
    /\ frame' = FrameOf([Closure(State) EXCEPT !.isPlaying = TRUE], el)
    /\ OnlyFrameChanges

\* A frame of the export at elapsed time el, before the export ends (lines 211-218)
ExportFrame(el) ==
    /\ el < calculateTotalDuration(media, settings)
    /\ frame' = FrameOf([Closure(State) EXCEPT !.appState = "RENDERING"], el)
    /\ OnlyFrameChanges

NextFrame ==
    \/ \E t \in ClockValues : SeekFrame(t)
    \/ \E el \in ClockValues : PlaybackFrame(el)
    \/ \E el \in ClockValues : ExportFrame(el)

SpecFrame == InitFrame /\ [][NextFrame]_vars

\* The frame computation over every kind of transition: the seven members
\* of TransitionType and a kind the switch does not know
TransitionKinds ==
    {"FADE", "SLIDE_UP", "SLIDE_DOWN", "SLIDE_LEFT", "SLIDE_RIGHT",
     "ZOOM_IN", "ZOOM_OUT", "RANDOM"}

KindCatalog == {[Photo EXCEPT !.transition = kind] : kind \in TransitionKinds}

InitTransitions ==
    \E mediaList \in [1 .. 1 -> KindCatalog] \cup [1 .. 2 -> KindCatalog],
       s \in SettingsCatalog :
        StateIs([Fresh EXCEPT
                   !.appState = "EDITING", !.media = mediaList, !.settings = s,
                   !.imagesRef = [i \in DOMAIN mediaList |-> LoadedResource(mediaList[i])]])

SpecTransitions == InitTransitions /\ [][NextFrame]_vars

----------------------------------------------------------------------------
\* The animated decorations (stickers): drawEffect of the timeline renderer
\* and the effect branch of the collage editor's draw loop

EffectKinds ==
    {"REC_FRAME", "RED_CIRCLE", "LOCATION_PIN", "TAPE", "BULB_LINE", "HEART_LINE"}

\* The sticker addEffectItem creates for animId (part_000 lines 214-233)
EffectItem(animId) ==
    [animationType |-> animId,
     width |-> IF animId = "LOCATION_PIN" THEN 100 ELSE 200,
     height |-> CASE animId = "TAPE" -> 50 [] animId = "LOCATION_PIN" -> 100
                  [] OTHER -> 200]

\* Math.sin of an angle in hundredths of a radian (a >= 0), in hundredths,
\* by Bhaskara's formula 16 y (pi - y) / (5 pi^2 - 4 y (pi - y))
HalfWave(y) == (1600 * y * (314 - y)) \div (5 * 314 * 314 - 4 * y * (314 - y))
Sine(a) == IF a % 628 < 314 THEN HalfWave(a % 628) ELSE 0 - HalfWave((a % 628) - 314)

\* Math.random() * 2 of the TAPE edge: the values one call can give
RandomJags == {0, 1}

\* What the switch on item.animationType draws at t (in ms), as the values
\* that depend on t or on Math.random: the red dot of REC_FRAME, the drawn
\* part of RED_CIRCLE (thousandths), the bob of LOCATION_PIN, the jag of
\* TAPE, flicker and glow of BULB_LINE, the beat of HEART_LINE (hundredths)
drawEffect(item, t, random) ==
    LET kind == item.animationType
    IN  [animationType |-> kind, width |-> item.width, height |-> item.height,
         dot |-> kind = "REC_FRAME" /\ ((t * 2) \div 1000) % 2 = 0,
         drawn |-> IF kind = "RED_CIRCLE" THEN Min(1000, t) ELSE 0,
         bob |-> IF kind = "LOCATION_PIN" THEN Sine(t \div 2) * 5 ELSE 0,
         jag |-> IF kind = "TAPE" THEN random ELSE 0,
         flicker |-> IF kind = "BULB_LINE" THEN 80 + (Sine(t * 2) * 20) \div 100 ELSE 0,
         glow |-> kind = "BULB_LINE" /\ Sine(t \div 2) > 0,
         beat |-> IF kind = "HEART_LINE" THEN 100 + (Sine((t * 8) \div 10) * 5) \div 100
                  ELSE 0]

\* const t = (now / 1000) % 3 of the editor's draw loop, in ms
EditorTime(now) == now % 3000

\* Two callbacks in a row of the editor's animation loop, at Date.now() =
\* now1 and now2, on a canvas holding the sticker animId
EditorDrawsTwice(animId, now1, now2, random1, random2) ==
    /\ appState = "COLLAGE"
    /\ now1 < now2
    /\ frame' = [drawn |-> FALSE, outcome |-> "effects", renderer |-> "editor",
                 time |-> Null,
                 first |-> drawEffect(EffectItem(animId), EditorTime(now1), random1),
                 second |-> drawEffect(EffectItem(animId), EditorTime(now2), random2)]
    /\ OnlyFrameChanges

\* Two paused frames of the timeline at the seek position t, the current
\* slide carrying the sticker animId: drawEffect(effect, timeInSlide / 1000)
TimelineDrawsTwice(animId, t, random1, random2) ==
    /\ appState = "EDITING"
    /\ LET fr == FrameOf([Closure(State) EXCEPT !.manualSeekTime = t], 0)
       IN  frame' = [drawn |-> FALSE, outcome |-> "effects", renderer |-> "timeline",
                     time |-> fr.timeInSlide,
                     first |-> drawEffect(EffectItem(animId), fr.timeInSlide, random1),
                     second |-> drawEffect(EffectItem(animId), fr.timeInSlide, random2)]
    /\ OnlyFrameChanges

\* Readings of Date.now() in ms, counted from a multiple of 3 s
WallClocks == {0, 250, 500, 1000, 3000, 3250}

\* The timelines the stickers are drawn over: one or two slides
InitEffects ==
    \E mediaList \in [1 .. 1 -> {Photo, Clip}] \cup [1 .. 2 -> {Photo, Clip}],
       s \in SettingsCatalog :
        StateIs([Fresh EXCEPT
                   !.appState = "EDITING", !.media = mediaList, !.settings = s,
                   !.imagesRef = [i \in DOMAIN mediaList |-> LoadedResource(mediaList[i])]])

NextEffects ==
    \/ HandleBackToCollage
    \/ HandleCollageFinish
    \/ \E animId \in EffectKinds, now1 \in WallClocks, now2 \in WallClocks,
          random1 \in RandomJags, random2 \in RandomJags :
            EditorDrawsTwice(animId, now1, now2, random1, random2)
    \/ \E animId \in EffectKinds, t \in ClockValues,
          random1 \in RandomJags, random2 \in RandomJags :
            TimelineDrawsTwice(animId, t, random1, random2)

SpecEffects == InitEffects /\ [][NextEffects]_vars

----------------------------------------------------------------------------
\* The overlay editor of the timeline (VideoPreview.tsx): the stickers
\* (overlayEffects) and the text (overlayText) of a slide.  Units as in the
\* collage editor: scale in tenths, rotation in quarter turns, the geometry
\* of hit test and drawing in twentieths of a pixel.  Pointer positions have
\* even coordinates, so that half of a pointer offset is a whole number.

\* Stickers on one timeline
MaxEffects == 2

\* Font sizes a RESIZE drag of the text may reach
MaxFontSize == 120

\* `effect-${Date.now()}`, in the order of creation
EffectIds == << "effect-1", "effect-2" >>

UsedEffectIds(mediaList) ==
    UNION { { mediaList[i].overlayEffects[j].id : j \in DOMAIN mediaList[i].overlayEffects } :
            i \in DOMAIN mediaList }

\* The text handleAddText creates (lines 1728-1745)
defaultText ==
    [id |-> "overlay", type |-> "text", text |-> "My Memories",
     x |-> Resolution.width \div 2, y |-> Resolution.height \div 2,
     width |-> 0, height |-> 0, scale |-> 10, rotation |-> 0, zIndex |-> 100,
     fontSize |-> 60, backgroundColor |-> FALSE, backgroundPadding |-> 0]

\* The sticker handleAddEffect creates (lines 1755-1765)
newEffect(id, animId, m) ==
    [id |-> id, type |-> "effect",
     x |-> Resolution.width \div 2, y |-> Resolution.height \div 2,
     width |-> 100, height |-> 100, scale |-> 10, rotation |-> 0,
     zIndex |-> 100 + Len(m.overlayEffects), animationType |-> animId]

\* handleMediaUpdate(id, updates) for one field (line 1715)
handleMediaUpdate(mediaList, id, field, value) ==
    [i \in DOMAIN mediaList |->
        IF mediaList[i].id = id THEN [mediaList[i] EXCEPT ![field] = value]
        ELSE mediaList[i]]

\* media.find(m => m.id === selectedMediaId): its index, 0 for undefined
FindMedia(mediaList, id) ==
    IF \E i \in DOMAIN mediaList : mediaList[i].id = id
    THEN CHOOSE i \in DOMAIN mediaList :
            /\ mediaList[i].id = id
            /\ \A k \in 1 .. i - 1 : mediaList[k].id # id
    ELSE 0

\* The overlay panel is rendered (lines 1922 and 1927)
OverlayPanel ==
    /\ appState \in {"EDITING", "FINISHED"}
    /\ selectedMediaId # Null
    /\ FindMedia(media, selectedMediaId) # 0

\* A handler of App replaces the timeline by mediaList
MediaBecomes(mediaList) ==
    Becomes(Commit(State, [State EXCEPT !.media = mediaList], TRUE))

\* handleAddText (lines 1726-1748); its button is shown while the slide has no text
HandleAddText ==
    /\ OverlayPanel
    /\ media[FindMedia(media, selectedMediaId)].overlayText = NoOverlayText
    /\ MediaBecomes(handleMediaUpdate(media, selectedMediaId, "overlayText", defaultText))

\* handleAddEffect(animId) (lines 1750-1770)
HandleAddEffect(animId) ==
    /\ OverlayPanel
    /\ \E k \in DOMAIN EffectIds : EffectIds[k] \notin UsedEffectIds(media)
    /\ LET m == media[FindMedia(media, selectedMediaId)]
           k == CHOOSE j \in DOMAIN EffectIds :
                   /\ EffectIds[j] \notin UsedEffectIds(media)
                   /\ \A l \in 1 .. j - 1 : EffectIds[l] \in UsedEffectIds(media)
       IN  MediaBecomes(handleMediaUpdate(media, selectedMediaId, "overlayEffects",
               Append(m.overlayEffects, newEffect(EffectIds[k], animId, m))))

\* handleRemoveEffect(effectId) (lines 1772-1780): the button of a sticker in
\* the list of the panel
HandleRemoveEffect(effectId) ==
    /\ OverlayPanel
    /\ LET m == media[FindMedia(media, selectedMediaId)]
       IN  /\ \E j \in DOMAIN m.overlayEffects : m.overlayEffects[j].id = effectId
           /\ MediaBecomes(handleMediaUpdate(media, selectedMediaId, "overlayEffects",
                  SelectSeq(m.overlayEffects, LAMBDA e : e.id # effectId)))

\* handleUpdateText by the background checkbox (lines 1995-2003)
ToggleTextBackground ==
    /\ OverlayPanel
    /\ LET m == media[FindMedia(media, selectedMediaId)]
       IN  /\ m.overlayText # NoOverlayText
           /\ MediaBecomes(handleMediaUpdate(media, selectedMediaId, "overlayText",
                  [m.overlayText EXCEPT !.backgroundColor = ~@,
                                        !.backgroundPadding = 10]))

\* handleUpdateText by the text field (lines 1947-1951)
SetOverlayText(text) ==
    /\ OverlayPanel
    /\ LET m == media[FindMedia(media, selectedMediaId)]
       IN  /\ m.overlayText # NoOverlayText
           /\ m.overlayText.text # text
           /\ MediaBecomes(handleMediaUpdate(media, selectedMediaId, "overlayText",
                  [m.overlayText EXCEPT !.text = text]))

\* handleRemoveText (lines 1790-1793); its button is shown while the slide has a text
HandleRemoveText ==
    /\ OverlayPanel
    /\ media[FindMedia(media, selectedMediaId)].overlayText # NoOverlayText
    /\ MediaBecomes(handleMediaUpdate(media, selectedMediaId, "overlayText", NoOverlayText))

\* The close button of the panel (line 1933)
CloseOverlayPanel ==
    /\ OverlayPanel
    /\ Becomes(Commit(State, [State EXCEPT !.selectedMediaId = Null], TRUE))

\* (ot.fontSize || 50) * 1.2, in twentieths of a pixel
TextHeight(ot) == (IF ot.fontSize # 0 THEN ot.fontSize ELSE 50) * 24

\* handleMouseDown, lines 1168-1184: the box the text is hit-tested against
TextHitBox(ot) ==
    LET metrics == MeasureText(ot.text)
        p == ot.backgroundPadding
        w == IF ot.backgroundColor THEN 20 * (metrics + p * 2) ELSE 20 * (metrics + 20)
        h == IF ot.backgroundColor THEN TextHeight(ot) + 20 * (p * 2) ELSE TextHeight(ot)
    IN  [cx |-> 20 * ot.x + w \div 2, cy |-> 20 * ot.y + h \div 2, w |-> w, h |-> h]

\* drawFrame, lines 772-788 and 835-840: the box the text, its background
\* and its selection outline are drawn in
TextDrawBox(ot) ==
    LET p == ot.backgroundPadding
        measuredW == MeasureText(ot.text)
        measuredH == TextHeight(ot)
        finalW == IF ot.width # 0 THEN ot.width ELSE measuredW
        totalW == 20 * (finalW + p * 2)
        totalH == measuredH + 20 * (p * 2)
        boxW == totalW
        boxH == totalH
    IN  [cx |-> 20 * ot.x + boxW \div 2, cy |-> 20 * ot.y + boxH \div 2,
         w |-> boxW, h |-> boxH]

\* The three hit tests of handleMouseDown on a box of half extents
\* (halfW, halfH) around (cx, cy): hSize = 20, rotDist = 25
OverlayHit(cx, cy, halfW, halfH, angle, P) ==
    LET local == RotateBack(P.x - cx, P.y - cy, angle)
        hSize == 20 * 20
        rotDist == 20 * 25
    IN  IF WithinRadius(local.x, local.y + halfH + rotDist, hSize) THEN "ROTATE"
        ELSE IF WithinRadius(local.x - halfW, local.y - halfH, hSize) THEN "RESIZE"
        ELSE IF Abs(local.x) <= halfW /\ Abs(local.y) <= halfH THEN "MOVE"
        ELSE "NONE"

\* lines 1115-1159 for one sticker
EffectHit(effect, P) ==
    OverlayHit(20 * effect.x + effect.width * effect.scale,
               20 * effect.y + effect.height * effect.scale,
               effect.width * effect.scale, effect.height * effect.scale,
               effect.rotation, P)

\* lines 1164-1207 for the text
TextHit(ot, P) ==
    LET b == TextHitBox(ot)
    IN  OverlayHit(b.cx, b.cy, b.w \div 2, b.h \div 2, ot.rotation, P)

\* for (const effect of [...overlayEffects].reverse()): the index of the
\* first sticker hit, looking from index k down; 0 if none is hit
RECURSIVE FirstEffectHit(_, _, _)
FirstEffectHit(effects, k, P) ==
    IF k = 0 THEN 0
    ELSE IF EffectHit(effects[k], P) # "NONE" THEN k
    ELSE FirstEffectHit(effects, k - 1, P)

\* The snapshot handleMouseDown keeps of the overlay it hit
OverlaySnapshot(item, mode, cx, cy, P) ==
    [held |-> TRUE, item |-> item,
     startAngle |-> IF mode = "ROTATE" THEN [dx |-> P.x - cx, dy |-> P.y - cy]
                    ELSE [dx |-> 0, dy |-> 0]]

\* handleMouseDown(e) of VideoPreview, lines 1103-1214, with the pointer at pos
OverlayMouseDown(pos) ==
    /\ appState \notin {"COLLAGE", "RENDERING"}
    /\ ~isPlaying
    /\ currentMediaIndex + 1 \in DOMAIN media
    /\ media[currentMediaIndex + 1].id = selectedMediaId
    /\ LET S0 == State
           P == Px(pos)
           currentMedia == media[currentMediaIndex + 1]
           effects == currentMedia.overlayEffects
           k == FirstEffectHit(effects, Len(effects), P)
           ot == currentMedia.overlayText
           textMode == IF k = 0 /\ ot # NoOverlayText THEN TextHit(ot, P) ELSE "NONE"
           S1 == IF k # 0
                 THEN [S0 EXCEPT
                         !.selectedOverlayId = effects[k].id,
                         !.previewInteractionMode = EffectHit(effects[k], P),
                         !.previewDragStartPos = pos,
                         !.initialOverlayState =
                             OverlaySnapshot(effects[k], EffectHit(effects[k], P),
                                 20 * effects[k].x + effects[k].width * effects[k].scale,
                                 20 * effects[k].y + effects[k].height * effects[k].scale,
                                 P)]
                 ELSE IF textMode # "NONE"
                 THEN [S0 EXCEPT
                         !.selectedOverlayId = "text",
                         !.previewInteractionMode = textMode,
                         !.previewDragStartPos = pos,
                         !.initialOverlayState =
                             OverlaySnapshot(ot, textMode, TextHitBox(ot).cx,
                                             TextHitBox(ot).cy, P)]
                 ELSE [S0 EXCEPT !.selectedOverlayId = NoOverlay]
       IN  Becomes(Commit(S0, S1, TRUE))

\* handleMouseMove, lines 1225-1256: the text a drag makes of the snapshot
DraggedText(init, mode, start, pos) ==
    LET ot == init.item
        dx == pos.x - start.x
        dy == pos.y - start.y
        b == TextHitBox(ot)
    IN  CASE mode = "ROTATE" ->
               [ot EXCEPT !.rotation =
                   @ + (Atan2(20 * pos.y - b.cy, 20 * pos.x - b.cx)
                        - Atan2(init.startAngle.dy, init.startAngle.dx))]
          [] mode = "MOVE" -> [ot EXCEPT !.x = @ + dx, !.y = @ + dy]
          [] mode = "RESIZE" ->
               [ot EXCEPT !.fontSize =
                   Max(10, (IF @ # 0 THEN @ ELSE 60) + dy \div 2)]
          [] OTHER -> ot

\* handleMouseMove, lines 1263-1284: the sticker a drag makes of the snapshot
DraggedEffect(init, mode, start, pos) ==
    LET newItem == init.item
        dx == pos.x - start.x
        dy == pos.y - start.y
        cx == 20 * newItem.x + newItem.width * newItem.scale
        cy == 20 * newItem.y + newItem.height * newItem.scale
    IN  CASE mode = "ROTATE" ->
               [newItem EXCEPT !.rotation =
                   @ + (Atan2(20 * pos.y - cy, 20 * pos.x - cx)
                        - Atan2(init.startAngle.dy, init.startAngle.dx))]
          [] mode = "MOVE" -> [newItem EXCEPT !.x = @ + dx, !.y = @ + dy]
          [] mode = "RESIZE" ->
               LET localDx == RotateBack(dx, dy, newItem.rotation).x
                   newW == newItem.width * newItem.scale + 10 * localDx
               IN  [newItem EXCEPT !.scale = Max(1, newW \div newItem.width)]
          [] OTHER -> newItem

\* The rotation a ROTATE drag computes is a whole number of quarter turns
OverlayAlongAxis(init, cx, cy, pos) ==
    /\ init.startAngle.dx = 0 \/ init.startAngle.dy = 0
    /\ 20 * pos.x = cx \/ 20 * pos.y = cy

\* The overlay stays within the part of the plane the model follows it in
OverlayWithinArena(item) ==
    /\ item.x >= 0 /\ item.x <= Resolution.width
    /\ item.y >= 0 /\ item.y <= Resolution.height
    /\ item.scale <= MaxScale
    /\ Abs(item.rotation) <= MaxQuarterTurns
    /\ item.type = "text" => item.fontSize <= MaxFontSize

\* handleMouseMove(e) of VideoPreview, lines 1216-1287, with the pointer at pos
OverlayMouseMove(pos) ==
    /\ appState # "COLLAGE"
    /\ previewInteractionMode # "NONE"
    /\ selectedOverlayId # NoOverlay
    /\ initialOverlayState.held
    /\ currentMediaIndex + 1 \in DOMAIN media
    /\ media[currentMediaIndex + 1].id = selectedMediaId
    /\ LET currentMedia == media[currentMediaIndex + 1]
           init == initialOverlayState
       IN  IF selectedOverlayId = "text"
           THEN LET item == DraggedText(init, previewInteractionMode,
                                        previewDragStartPos, pos)
                IN  /\ previewInteractionMode = "ROTATE" =>
                          OverlayAlongAxis(init, TextHitBox(init.item).cx,
                                           TextHitBox(init.item).cy, pos)
                    /\ OverlayWithinArena(item)
                    /\ MediaBecomes(handleMediaUpdate(media, currentMedia.id,
                                                      "overlayText", item))
           ELSE LET effects == currentMedia.overlayEffects
                    item == DraggedEffect(init, previewInteractionMode,
                                          previewDragStartPos, pos)
                IN  /\ \E idx \in DOMAIN effects : effects[idx].id = selectedOverlayId
                    /\ previewInteractionMode = "ROTATE" =>
                          OverlayAlongAxis(init,
                              20 * init.item.x + init.item.width * init.item.scale,
                              20 * init.item.y + init.item.height * init.item.scale, pos)
                    /\ OverlayWithinArena(item)
                    /\ MediaBecomes(handleMediaUpdate(media, currentMedia.id,
                           "overlayEffects",
                           [idx \in DOMAIN effects |->
                               IF idx = (CHOOSE j \in DOMAIN effects :
                                            /\ effects[j].id = selectedOverlayId
                                            /\ \A l \in 1 .. j - 1 :
                                                  effects[l].id # selectedOverlayId)
                               THEN item ELSE effects[idx]]))

\* handleMouseUp of VideoPreview (lines 1289-1292), also bound to onMouseLeave
OverlayMouseUp ==
    /\ appState # "COLLAGE"
    /\ previewInteractionMode # "NONE" \/ initialOverlayState # NoItemState
    /\ Becomes(Commit(State, [State EXCEPT !.previewInteractionMode = "NONE",
                                           !.initialOverlayState = NoItemState], TRUE))

\* Positions of the pointer on the preview canvas: the body of a new sticker,
\* its resize handle, its rotation handle, the body of a new text, the part
\* of its hit box beyond the drawn box, its resize handle, and empty canvas
OverlayPointers ==
    { [x |-> 530, y |-> 410], [x |-> 580, y |-> 460], [x |-> 530, y |-> 336],
      [x |-> 680, y |-> 396], [x |-> 890, y |-> 396], [x |-> 900, y |-> 432],
      [x |-> 100, y |-> 100] }

\* Clicks that select: the body of a new sticker, the body of a new text
\* clear of the sticker, and empty canvas
OverlayClicks ==
    { [x |-> 530, y |-> 410], [x |-> 680, y |-> 396], [x |-> 100, y |-> 100] }

\* Pointer positions of a drag of the text: its body, the part of its hit
\* box beyond the drawn box, and its resize handle
TextPointers ==
    { [x |-> 680, y |-> 396], [x |-> 890, y |-> 396], [x |-> 900, y |-> 432] }

\* Selecting, adding and removing overlays on a timeline of photos
InitOverlay ==
    \E mediaList \in { Numbered(<< Photo >>), Numbered(<< Photo, Photo >>) } :
        StateIs([Fresh EXCEPT
                   !.appState = "EDITING", !.media = mediaList,
                   !.settings = [photoDuration |-> 1, transitionDuration |-> 1],
                   !.imagesRef = [i \in DOMAIN mediaList |-> LoadedResource(mediaList[i])]])

NextOverlay ==
    \/ \E index \in 0 .. MaxSlides - 1 : HandleSelectMedia(index)
    \/ HandleAddText
    \/ \E animId \in {"REC_FRAME"} : HandleAddEffect(animId)
    \/ \E effectId \in {EffectIds[k] : k \in DOMAIN EffectIds} : HandleRemoveEffect(effectId)
    \/ HandleRemoveText
    \/ \E pos \in OverlayClicks : OverlayMouseDown(pos)
    \/ OverlayMouseUp
    \/ FrameCallback
    \/ LoadDone

SpecOverlay == InitOverlay /\ [][NextOverlay]_vars

\* Editing the text of the one slide of a timeline
InitOverlayText ==
    LET mediaList == Numbered(<< Photo >>)
    IN  StateIs([Fresh EXCEPT
                   !.appState = "EDITING", !.media = mediaList,
                   !.settings = [photoDuration |-> 1, transitionDuration |-> 1],
                   !.imagesRef = [i \in DOMAIN mediaList |-> LoadedResource(mediaList[i])]])

NextOverlayText ==
    \/ HandleSelectMedia(0)
    \/ HandleAddText
    \/ ToggleTextBackground
    \/ HandleRemoveText
    \/ \E pos \in TextPointers : OverlayMouseDown(pos)
    \/ \E pos \in TextPointers : OverlayMouseMove(pos)
    \/ OverlayMouseUp
    \/ FrameCallback
    \/ LoadDone

SpecOverlayText == InitOverlayText /\ [][NextOverlayText]_vars

\* Saving collages: the editor is open over a timeline of two uploaded
\* photos; photos are put on the canvas, the collage is saved, saved
\* collages are loaded and saved again
InitSave ==
    StateIs([Mount(Fresh, TRUE) EXCEPT !.appState = "COLLAGE",
                                       !.media = Numbered(<< Photo, Photo >>)])

NextSave ==
    \/ \E id \in PhotoIds : ToggleImageOnCanvas(id, [x |-> 100, y |-> 300])
    \/ \E finish \in BOOLEAN : HandleSaveInternal(finish)
    \/ SaveTimerFires
    \/ CollageDrawFrame
    \/ \E c \in 1 .. MaxSlides : LoadCollage(c)

SpecSave == InitSave /\ [][NextSave]_vars

\* The timelines of the music slice
MusicTimelines ==
    { Numbered(<< Photo, Photo >>), Numbered(<< Photo, Clip >>),
      Numbered(<< ShortClip, Photo >>), Numbered(<< Photo, ShortClip >>) }

\* Playing a timeline with background tracks: the editor holds a timeline
\* and a track list, the tracks are decoded, playback starts and stops
InitMusic ==
    \E mediaList \in MusicTimelines, tracks \in MusicCatalog :
        StateIs([Fresh EXCEPT
                   !.appState = "EDITING", !.media = mediaList,
                   !.audioTracks = tracks,
                   !.imagesRef = [i \in DOMAIN mediaList |-> LoadedResource(mediaList[i])]])

NextMusic ==
    \/ LoadAudioDone
    \/ StartPlayback
    \/ StopPlayback
    \/ FrameCallback
    \/ \E step \in ClockSteps : Tick(step)

SpecMusic == InitMusic /\ [][NextMusic]_vars

----------------------------------------------------------------------------
\* The application: every operation

Next ==
    \/ \E item \in UploadCatalog : HandleMediaUpload(item)
    \/ \E track \in AudioCatalog : HandleAudioUpload(track)
    \/ HandleStartCollage
    \/ HandleCollageSave
    \/ HandleCollageFinish
    \/ HandleBackToCollage
    \/ \E supported \in BOOLEAN : HandleRender(supported)
    \/ \E index \in 0 .. MaxSlides : RemoveMedia(index)
    \/ \E value \in PhotoDurations : SetPhotoDuration(value)
    \/ \E value \in TransitionDurations : SetTransitionDuration(value)
    \/ \E index \in 0 .. MaxSlides : HandleSelectMedia(index)
    \/ reset
    \/ \E file \in ProjectFiles : LoadProjectFile(file)
    \/ StartPlayback
    \/ StopPlayback
    \/ FrameCallback
    \/ LoadDone
    \/ LoadAudioDone
    \/ \E r \in 1 .. MaxRecorders : RecorderStop(r)
    \/ \E step \in ClockSteps : Tick(step)
    \/ HandleAddText
    \/ \E animId \in EffectKinds : HandleAddEffect(animId)
    \/ \E effectId \in {EffectIds[k] : k \in DOMAIN EffectIds} : HandleRemoveEffect(effectId)
    \/ ToggleTextBackground
    \/ \E text \in TextCatalog : SetOverlayText(text)
    \/ HandleRemoveText
    \/ CloseOverlayPanel
    \/ \E pos \in OverlayPointers : OverlayMouseDown(pos)
    \/ \E pos \in OverlayPointers : OverlayMouseMove(pos)
    \/ OverlayMouseUp

Spec == Init /\ [][Next]_vars

\* Playing and exporting a timeline of clips, without background music
NextExport ==
    \/ \E item \in ClipCatalog : HandleMediaUpload(item)
    \/ HandleStartCollage
    \/ HandleCollageFinish
    \/ \E supported \in BOOLEAN : HandleRender(supported)
    \/ \E index \in 0 .. MaxSlides : RemoveMedia(index)
    \/ reset
    \/ StartPlayback
    \/ StopPlayback
    \/ FrameCallback
    \/ LoadDone
    \/ \E r \in 1 .. MaxRecorders : RecorderStop(r)
    \/ \E step \in ClockSteps : Tick(step)

SpecExport == Init /\ [][NextExport]_vars

\* Playing and exporting a timeline of clips with background music
NextAudio ==
    \/ \E item \in ClipCatalog : HandleMediaUpload(item)
    \/ \E track \in AudioCatalog : HandleAudioUpload(track)
    \/ HandleStartCollage
    \/ HandleCollageFinish
    \/ HandleRender(TRUE)
    \/ StartPlayback
    \/ StopPlayback
    \/ FrameCallback
    \/ LoadDone
    \/ LoadAudioDone
    \/ \E r \in 1 .. MaxRecorders : RecorderStop(r)
    \/ \E step \in ClockSteps : Tick(step)

SpecAudio == Init /\ [][NextAudio]_vars

\* The slice for the sound of the video elements: clips, the original-audio
\* button, play and pause, a click on the first thumbnail, the export
NextSound ==
    \/ \E item \in ClipCatalog : HandleMediaUpload(item)
    \/ HandleStartCollage
    \/ HandleCollageFinish
    \/ HandleRender(TRUE)
    \/ \E index \in 0 .. MaxSlides : toggleVideoAudio(index)
    \/ HandleSelectMedia(0)
    \/ StartPlayback
    \/ StopPlayback
    \/ FrameCallback
    \/ LoadDone
    \/ \E r \in 1 .. MaxRecorders : RecorderStop(r)
    \/ \E step \in ClockSteps : Tick(step)

SpecSound == Init /\ [][NextSound]_vars

\* Editing a timeline and loading project files over it
NextProject ==
    \/ \E item \in UploadCatalog : HandleMediaUpload(item)
    \/ HandleStartCollage
    \/ HandleCollageFinish
    \/ \E value \in PhotoDurations : SetPhotoDuration(value)
    \/ \E file \in ProjectFiles : LoadProjectFile(file)
    \/ FrameCallback
    \/ LoadDone

SpecProject == Init /\ [][NextProject]_vars

----------------------------------------------------------------------------
\* Properties of the frame computation

\* The duration a slide is specified to have, in ms: a video its duration or
\* 5 s, a photo or collage settings.photoDuration
SpecifiedDurationMs(m, s) ==
    IF m.type = "video"
    THEN (IF m.duration > 0 THEN m.duration ELSE 5000)
    ELSE s.photoDuration * 1000

\* Sum of the specified durations of the first n slides
RECURSIVE SpecifiedStart(_, _, _)
SpecifiedStart(mediaList, s, n) ==
    IF n = 0 THEN 0
    ELSE SpecifiedStart(mediaList, s, n - 1) + SpecifiedDurationMs(mediaList[n], s)

\* The frame drew the current slide and nothing else
RendersAlone ==
    /\ Len(frame.calls) = 1
    /\ frame.calls[1].slide = frame.slideIndex

\* The frame drew the current slide and then slide (i + 1) mod N
Composites ==
    /\ Len(frame.calls) = 2
    /\ frame.calls[1].slide = frame.slideIndex
    /\ frame.calls[2].slide = (frame.slideIndex + 1) % Len(frame.mediaList)

\* C1: for a clock value t in [0, total), total being the sum of the
\* specified per-slide durations, the lookup of a drawn frame yields the one
\* slide i with start(i) <= t < start(i + 1), the local time t - start(i) and
\* that slide's duration; calculateTotalDuration yields the same total.
C1_LookupFindsTheSlide ==
    frame.drawn =>
        LET mediaList == frame.mediaList
            s == frame.settings
            t == frame.loopTime
            total == SpecifiedStart(mediaList, s, Len(mediaList))
        IN  /\ frame.totalDuration = total
            /\ (t >= 0 /\ t < total) =>
                 /\ \A j \in 0 .. Len(mediaList) - 1 :
                        (SpecifiedStart(mediaList, s, j) <= t
                           /\ t < SpecifiedStart(mediaList, s, j + 1))
                        <=> (j = frame.slideIndex)
                 /\ frame.timeInSlide = t - SpecifiedStart(mediaList, s, frame.slideIndex)
                 /\ frame.slideDuration =
                        SpecifiedDurationMs(mediaList[frame.slideIndex + 1], s)

\* A frame on the third slide of a timeline that mixes clips and photos,
\* half a second into the slide
C1_Witness ==
    /\ frame.drawn
    /\ Len(frame.mediaList) = 3
    /\ \E i, j \in 1 .. 3 : frame.mediaList[i].type # frame.mediaList[j].type
    /\ frame.loopTime < frame.totalDuration
    /\ frame.slideIndex = 2
    /\ frame.timeInSlide = 500

\* C3 as stated: with at least two slides, in every driver mode, the current
\* slide is drawn alone only while localTime < transitionStart, and from
\* transitionStart on the frame composites it with slide (i + 1) mod N.
C3_AloneOnlyBeforeTransition ==
    (frame.drawn /\ Len(frame.mediaList) >= 2) =>
        /\ RendersAlone => frame.timeInSlide < frame.transitionStart
        /\ frame.timeInSlide >= frame.transitionStart => Composites

\* C3 amended: the same, except that an export draws the last slide of the
\* timeline alone for the whole of its duration.
C3_AloneBeforeTransitionOrLastExported ==
    (frame.drawn /\ Len(frame.mediaList) >= 2) =>
        IF frame.appState = "RENDERING" /\ frame.slideIndex = Len(frame.mediaList) - 1
        THEN RendersAlone
        ELSE /\ frame.timeInSlide < frame.transitionStart => RendersAlone
             /\ frame.timeInSlide >= frame.transitionStart => Composites

\* An exported frame inside the transition window of the last of several
\* slides, drawn alone
C3_Witness ==
    /\ frame.drawn
    /\ Len(frame.mediaList) >= 2
    /\ frame.appState = "RENDERING"
    /\ frame.slideIndex = Len(frame.mediaList) - 1
    /\ frame.timeInSlide >= frame.transitionStart
    /\ RendersAlone

\* C4: transitionStart = slideDuration - min(transitionDuration, slideDuration),
\* and a frame that applies the transition rule is inside the window exactly
\* when its local time is >= transitionStart.  With three slides of 3000 ms
\* and a transition of 1000 ms, t = 2500 is slide 0 at local time 2500 inside
\* the window (transitionStart 2000) and t = 3500 is slide 1 at local time 500
\* outside it.
C4_TransitionWindow ==
    frame.drawn =>
        /\ frame.transitionStart =
              frame.slideDuration
                - Min(frame.settings.transitionDuration * 1000, frame.slideDuration)
        /\ frame.phase # "single" =>
              (frame.phase = "transition" <=> frame.timeInSlide >= frame.transitionStart)
        /\ ( /\ frame.mediaList = << Photo, Photo, Photo >>
             /\ frame.settings = [photoDuration |-> 3, transitionDuration |-> 1]
             /\ frame.appState # "RENDERING" ) =>
              /\ frame.loopTime = 2500 =>
                    /\ frame.slideIndex = 0 /\ frame.timeInSlide = 2500
                    /\ frame.transitionStart = 2000 /\ Composites
              /\ frame.loopTime = 3500 =>
                    /\ frame.slideIndex = 1 /\ frame.timeInSlide = 500
                    /\ frame.transitionStart = 2000 /\ RendersAlone

\* The frame at t = 2500 of three photos of 3 s with a transition of 1 s
C4_Witness ==
    /\ frame.drawn
    /\ frame.mediaList = << Photo, Photo, Photo >>
    /\ frame.settings = [photoDuration |-> 3, transitionDuration |-> 1]
    /\ frame.loopTime = 2500
    /\ frame.phase = "transition"

\* C10: a slide whose loaded resource is null and which has no collage data
\* is drawn as the placeholder panel in every frame that renders it, and the
\* frame is not aborted.
C10_NullResourceDrawsPlaceholder ==
    /\ frame.outcome # "threw"
    /\ frame.drawn =>
         \A k \in DOMAIN frame.calls :
            LET slide == frame.calls[k].slide
            IN  (ResourceAt(imagesRef, slide) = "null"
                   /\ ~frame.mediaList[slide + 1].collageData)
                => frame.calls[k].drew = "placeholder"

----------------------------------------------------------------------------
\* Properties of playback and export

\* The callback of a running loop (one that schedules itself again) is scheduled
LoopScheduled ==
    \E i \in DOMAIN rafQueue :
        rafQueue[i].closure.isPlaying \/ rafQueue[i].closure.appState = "RENDERING"

\* A scheduled callback would, run now, draw a frame and schedule itself again
LoopContinues ==
    \E i \in DOMAIN rafQueue :
        LET c == rafQueue[i].closure
        IN  /\ Len(imagesRef) > 0
            /\ Len(c.mediaList) > 0
            /\ IF c.appState = "RENDERING"
               THEN (IF elapsed = Null THEN 0 ELSE elapsed) < totalLoopDurationRef
               ELSE c.isPlaying

\* The recorder of the current export is recording
Recording ==
    /\ mediaRecorderRef # 0
    /\ recorders[mediaRecorderRef].state = "recording"

\* C2: under every driver of the clock, after any sequence of play, pause and
\* export operations, the clock value a frame is drawn at lies in
\* [0, totalDuration).
C2_ClockWithinTimeline ==
    frame.drawn => (frame.loopTime >= 0 /\ frame.loopTime < frame.totalDuration)

\* C5: an export that was started runs to completion: while the app is in
\* RENDERING and the recorder records, the export's frame loop is scheduled
\* (so that it reaches the end of the timeline, stops the recorder and the
\* stop event reports completion).
C5_ExportRunsToCompletion ==
    (appState = "RENDERING" /\ Recording) => LoopScheduled

\* C6: while the recorder of an export records, successive frames of the
\* export are drawn at non-decreasing clock values, every exported frame is
\* drawn before the elapsed time reaches the total duration, and the export
\* is stopped only once it has reached it.
C6_ExportClockMonotone ==
    /\ (frame.drawn /\ frame.appState = "RENDERING" /\ frame.recording) =>
          /\ frame.previousClock # Null => frame.previousClock <= frame.loopTime
          /\ frame.elapsed < frame.totalDuration
    /\ (frame.outcome = "stopped" /\ frame.recording) =>
          frame.elapsed >= frame.totalDuration

\* C7: when the app leaves RENDERING before the export has finished, the
\* export is cancelled (no loop callback stays scheduled, the recorder no
\* longer records), and FINISHED is only ever entered from RENDERING, never
\* by the stop event of an abandoned export.
C7_AbandonedExportIsCancelled ==
    [][ /\ (appState = "RENDERING" /\ appState' \notin {"RENDERING", "FINISHED"}) =>
            /\ ~LoopScheduled'
            /\ \A r \in DOMAIN recorders' : recorders'[r].state # "recording"
        /\ (appState # "FINISHED" /\ appState' = "FINISHED") => appState = "RENDERING"
      ]_vars

\* C8: once stopPlayback has run, and once the stop event of a stopped export
\* has been handled, no callback that continues a frame loop is scheduled,
\* every video element is paused, sourceNodesRef and gainNodesRef are empty
\* and no audio context is open.
C8_StoppedMeansTornDown ==
    [][ ( \/ (isPlaying /\ ~isPlaying')
          \/ \E r \in DOMAIN recorders :
                recorders[r].stopEvent /\ ~recorders'[r].stopEvent )
        => /\ ~LoopContinues'
           /\ \A i \in DOMAIN imagesRef' : imagesRef'[i] # "videoPlaying"
           /\ sourceNodesRef' = << >>
           /\ gainNodesRef' = 0
           /\ audioContextRef' # "open"
      ]_vars

\* C9: a frame drawn by a running loop (the export while the app is in
\* RENDERING and the recorder records, live playback while isPlaying) shows
\* the slide list and the settings as most recently committed.
C9_LoopReadsCommittedState ==
    ( /\ frame.drawn
      /\ \/ frame.appState = "RENDERING" /\ appState = "RENDERING" /\ frame.recording
         \/ frame.appState # "RENDERING" /\ frame.isPlaying /\ isPlaying ) =>
        /\ frame.mediaList = media
        /\ frame.settings = settings

\* The export started last could not create its recorder
\* (new MediaRecorder threw, lines 1041-1064)
ExportFailed ==
    /\ Len(recorders) > 0
    /\ recorders[Len(recorders)].state = "failed"

\* C11: when the recorder cannot be created at export start, the export
\* fails for that operation only: no video is delivered and the preview is
\* usable again, i.e. the app is not left in RENDERING.
C11_FailedExportLeavesRendering ==
    ExportFailed => (videoUrl = Null /\ appState # "RENDERING")

----------------------------------------------------------------------------
\* Properties of project loading

\* Loading the file fails: it is not JSON or lacks a required field
LoadFails(file) == ~file.parses \/ file.lacks # "nothing"

\* C12: a failed project load leaves settings, media, audioTracks and
\* appState exactly as they were before the load was attempted.
C12_FailedLoadLeavesStateUntouched ==
    [][ \A file \in ProjectFiles :
            (LoadFails(file) /\ LoadProjectFile(file)) =>
                /\ settings' = settings
                /\ media' = media
                /\ audioTracks' = audioTracks
                /\ appState' = appState
      ]_vars

----------------------------------------------------------------------------
\* Properties of the collage editor: selection

\* The item the pointer went down on takes part in an interaction
Selected == canvasItems[SelectedIndex]

\* The interactions whose handle of the item, as drawFrame places it, is
\* within r of the canvas position P (lines 455-470)
HandlesUnder(item, cropping, P, r) ==
    {mode \in {"ROTATE"} : Near(P, GripDrawnAt(item), r)}
        \cup (IF cropping /\ item.type = "image"
              THEN {mode \in {"CROP_TL", "CROP_TR", "CROP_BL", "CROP_BR"} :
                        Near(P, CropDrawnAt(item, mode), r)}
                   \cup {mode \in {"CROP_PAN"} : OnDrawnBox(item, P)}
              ELSE {mode \in {"RESIZE"} : Near(P, ResizeDrawnAt(item), r)})

\* C15: the radius within which a pointer-down counts as a handle hit is the
\* radius the handle is drawn with: the pointer starts a rotation or a resize
\* of the selected item exactly where the drawn grip or corner handle is.
C15_HitRadiusIsDrawnRadius ==
    (SelectedIndex # 0 /\ ~isCropping) =>
        \A pos \in ClickCatalog :
            (HandleAt(Selected, isCropping, Px(pos)) \in {"ROTATE", "RESIZE"})
                <=> (HandlesUnder(Selected, isCropping, Px(pos), DrawnRadius) # {})

\* A pointer-down has just started an interaction other than a move
HandleHeld == initialItemState.held /\ interactionMode \notin {"NONE", "MOVE"}

\* C16: a pointer-down within a handle of the selected item starts the
\* interaction of that handle, and leaves the selection and every zIndex as
\* they were, whatever other item lies under the pointer.
C16_HandlesBeforeReselection ==
    [][ \A pos \in ClickCatalog :
            ( /\ interactionMode = "NONE"
              /\ SelectedIndex # 0
              /\ HandlesUnder(Selected, isCropping, Px(pos), DrawnRadius) # {}
              /\ MouseDown(pos) ) =>
                /\ interactionMode' \in HandlesUnder(Selected, isCropping, Px(pos), HitRadius)
                /\ selectedItemId' = selectedItemId
                /\ canvasItems' = canvasItems
      ]_vars

\* A handle of the selected item is held where the body of an item drawn
\* above it lies under the pointer
C16_Witness ==
    /\ HandleHeld
    /\ SelectedIndex # 0
    /\ \E i \in DOMAIN canvasItems :
          /\ i # SelectedIndex
          /\ canvasItems[i].zIndex > Selected.zIndex
          /\ BodyContains(canvasItems[i], Px(dragStartPos))

\* The indices of the items whose body lies under the canvas position P
Under(items, P) == {i \in DOMAIN items : BodyContains(items[i], P)}

\* C17: a pointer-down that falls through to the body test selects the item
\* drawn on top at that position, also when several items there have the
\* same zIndex.
C17_SelectsTopmostDrawn ==
    [][ \A pos \in ClickCatalog :
            ( /\ interactionMode = "NONE"
              /\ interactionMode' = "MOVE"
              /\ MouseDown(pos) ) =>
                selectedItemId' =
                    canvasItems[DrawnLast(canvasItems, Under(canvasItems, Px(pos)))].id
      ]_vars

\* C18: after a body hit the item under the pointer is selected, crop mode
\* is off, and its zIndex is strictly greater than that of every other item.
C18_BodyHitSelectsAndRaises ==
    [][ \A pos \in ClickCatalog :
            ( /\ interactionMode = "NONE"
              /\ interactionMode' = "MOVE"
              /\ MouseDown(pos) ) =>
                /\ selectedItemId' # NoSelection
                /\ FindItem(canvasItems', selectedItemId') \in Under(canvasItems', Px(pos))
                /\ ~isCropping'
                /\ \A i \in DOMAIN canvasItems' :
                      canvasItems'[i].id # selectedItemId' =>
                          canvasItems'[i].zIndex
                              < canvasItems'[FindItem(canvasItems', selectedItemId')].zIndex
      ]_vars

\* A body hit has raised an item that was not on top before: the item being
\* moved was not the last one placed, and another item lies under the pointer
C18_Witness ==
    /\ interactionMode = "MOVE"
    /\ SelectedIndex # 0
    /\ SelectedIndex # Len(canvasItems)
    /\ Cardinality(Under(canvasItems, Px(dragStartPos))) > 1
    /\ \A i \in DOMAIN canvasItems :
          i # SelectedIndex => canvasItems[i].zIndex < Selected.zIndex

\* C20: deleting the selected item (the delete button of the panel, or
\* toggling the selected photo off) clears selectedItemId and removes the item
\* from the canvas, so that no later pointer-down can operate on it.
C20_DeleteClearsSelection ==
    [][ \A id \in {TitleItem.id, "effect-1"} \cup PhotoIds :
            ( /\ selectedItemId = id
              /\ FindItem(canvasItems, id) # 0
              /\ \/ DeleteSelected
                 \/ \E place \in Placements : ToggleImageOnCanvas(id, place) ) =>
                /\ selectedItemId' = NoSelection
                /\ FindItem(canvasItems', id) = 0
                /\ \A pos \in ClickCatalog : BodyHit(canvasItems', Px(pos)) = 0
                      \/ canvasItems'[BodyHit(canvasItems', Px(pos))].id # id
      ]_vars

\* The canvas is empty and nothing is selected: the title, which only the
\* delete button removes, was selected and deleted
C20_Witness ==
    /\ canvasItems = << >>
    /\ selectedItemId = NoSelection
    /\ appState = "COLLAGE"

----------------------------------------------------------------------------
\* Properties of the collage editor: geometry and drags

\* drawFrame, lines 272-283 and 444-447: the centre and the half-extents of
\* the box the item and its selection outline are drawn in
DrawBox(item) ==
    LET p == DrawPad(item)
        halfW == (item.width + 2 * p) * item.scale
        halfH == (item.height + 2 * p) * item.scale
    IN  [cx |-> 20 * item.x + halfW, cy |-> 20 * item.y + halfH,
         halfW |-> halfW, halfH |-> halfH]

\* handleMouseDown, lines 501-507 and 536-542: the centre and the
\* half-extents of the box a pointer-down is tested against
HitBox(item) ==
    LET h == HitLocal(item, HitPad(item), [x |-> 0, y |-> 0])
    IN  [cx |-> h.cx, cy |-> h.cy, halfW |-> h.halfW, halfH |-> h.halfH]

\* C13: for every item the box of the pointer-down hit test (centre and
\* half-extents, pad included) is the box the item and its selection outline
\* are drawn in: the pad is backgroundPadding only for a text item that has a
\* background colour, and 0 otherwise.
C13_HitBoxIsDrawBox ==
    \A i \in DOMAIN canvasItems :
        IsNumber(canvasItems[i].scale) =>
            /\ HitPad(canvasItems[i]) = DrawPad(canvasItems[i])
            /\ HitBox(canvasItems[i]) = DrawBox(canvasItems[i])

\* The pads a box is drawn and tested with (0, the 10 of the background
\* button, and the values of the slider)
PadCatalog == {0, 10} \cup PaddingCatalog

Below(v, bound) == IsNumber(v) /\ v < bound

\* C19: whatever the pointer delta, arbitrarily large negative ones
\* included, a RESIZE drag never sets the scale of an item below 0.1, and a
\* bottom-right crop-resize drag never sets the width or the height of an
\* image below 50.
C19_DragsAreClamped ==
    [][ \A pos \in DragCatalog :
            ( /\ interactionMode \in {"RESIZE", "CROP_BR"}
              /\ MouseMove(pos) ) =>
                \A i \in DOMAIN canvasItems' :
                    canvasItems'[i].id = selectedItemId =>
                        /\ interactionMode = "RESIZE" =>
                              ~Below(canvasItems'[i].scale, 1)
                        /\ interactionMode = "CROP_BR" =>
                              /\ canvasItems'[i].width >= 50
                              /\ canvasItems'[i].height >= 50
      ]_vars

\* A RESIZE drag to the left of the item has stopped at the scale 0.1, with
\* a photo on the canvas that a crop drag has cut down to 50 by 50
C19_Witness ==
    /\ interactionMode = "RESIZE"
    /\ SelectedIndex # 0
    /\ Selected.scale = 1
    /\ \E i \in DOMAIN canvasItems :
          /\ canvasItems[i].type = "image"
          /\ canvasItems[i].width = 50
          /\ canvasItems[i].height = 50

----------------------------------------------------------------------------
\* Properties of the collage editor: the scene and its selection

\* C21: in the collage editor, after any sequence of operations (add,
\* delete, toggle photo, pointer-down, reset canvas / new collage, load
\* collage, save), selectedItemId is unset or the id of an item that is on
\* the canvas.
C21_SelectionNamesAnItem ==
    appState = "COLLAGE" =>
        (selectedItemId = NoSelection \/ FindItem(canvasItems, selectedItemId) # 0)

----------------------------------------------------------------------------
\* Properties of the audio graph

\* The times at which the gain is sampled: every 50 ms of the timeline
DuckSamples(mediaList, s) ==
    {50 * n : n \in 0 .. (calculateTotalDuration(mediaList, s) \div 50)}

\* The slides of the timeline whose own sound is heard
Audible(mediaList) ==
    {i \in DOMAIN mediaList :
        mediaList[i].type = "video" /\ mediaList[i].enableOriginalAudio
                                    /\ ~mediaList[i].missing}

AudibleElement(i) ==
    /\ imagesRef[i] = "videoPlaying"
    /\ i = frame.slideIndex + 1
    /\ frame.volume > 0

\* C23: after a drawn frame a video element is audible (playing, with a
\* volume above 0) only if it is the element of the active slide and that
\* slide is a video whose enableOriginalAudio is set.
C23_OnlyTheActiveClipSounds ==
    frame.drawn =>
        \A i \in DOMAIN imagesRef :
            AudibleElement(i) =>
                /\ i \in DOMAIN media
                /\ media[i].type = "video"
                /\ media[i].enableOriginalAudio

C23_Witness ==
    /\ frame.drawn
    /\ \E i \in DOMAIN imagesRef : AudibleElement(i)

----------------------------------------------------------------------------
\* Properties of the decorations

\* C24: two drawings of the same scene with no state change in between and
\* at the same time value are identical for every decoration kind except
\* TAPE, in the collage editor and in the timeline renderer.
C24_SameTimeSameDrawing ==
    (frame.outcome = "effects" /\ frame.first.animationType # "TAPE")
        => frame.first = frame.second

\* C25: the timeline's collage renderer draws every item of a collage where
\* the editor's draw loop draws it (same centre, rotation, scale and pad
\* rule): the top-left and the bottom-right corner of the item's content
\* land on the same positions of the collage.
C25_TimelineDrawsAsTheEditor ==
    appState = "COLLAGE" =>
        \A i \in DOMAIN canvasItems :
            LET item == canvasItems[i]
            IN  IsNumber(item.scale) =>
                    /\ renderCollageFrame(item, 0, 0) = ContentDrawnAt(item, 0, 0)
                    /\ renderCollageFrame(item, item.width, item.height)
                          = ContentDrawnAt(item, item.width, item.height)

----------------------------------------------------------------------------
\* Properties of the transition and of the zoom

\* The direction the outgoing slide leaves in
SlideDirection(kind) ==
    CASE kind = "SLIDE_LEFT" -> [x |-> -1, y |-> 0]
      [] kind = "SLIDE_RIGHT" -> [x |-> 1, y |-> 0]
      [] kind = "SLIDE_UP" -> [x |-> 0, y |-> -1]
      [] kind = "SLIDE_DOWN" -> [x |-> 0, y |-> 1]
      [] OTHER -> [x |-> 0, y |-> 0]

\* C26: in a frame of the transition phase there is a progress p in [0, 1],
\* the clamped (localTime - transitionStart) / transitionWindow, such that a
\* sliding kind draws the outgoing slide p frame dimensions off its place
\* and the incoming slide (1 - p) frame dimensions off on the opposite side,
\* both opaque (the two offsets one frame dimension apart), and every other
\* kind draws the outgoing slide at alpha 1 and the incoming one, in place,
\* at alpha p.  p in thousandths, offsets in thousandths of a pixel.
C26_TransitionProgress ==
    (frame.drawn /\ frame.phase = "transition") =>
        LET window == frame.effectiveTransitionDuration
            kind == frame.mediaList[frame.slideIndex + 1].transition
            d == SlideDirection(kind)
            outgoing == frame.args[1]
            incoming == frame.args[2]
            candidates ==
                IF window > 0
                THEN {Max(0, Min(1000,
                         ((frame.timeInSlide - frame.transitionStart) * 1000) \div window))}
                ELSE 0 .. 1000
        IN  \E p \in candidates :
              /\ outgoing.alpha = 1000
              /\ outgoing.offsetX = d.x * p * Resolution.width
              /\ outgoing.offsetY = d.y * p * Resolution.height
              /\ incoming.offsetX = (0 - d.x) * (1000 - p) * Resolution.width
              /\ incoming.offsetY = (0 - d.y) * (1000 - p) * Resolution.height
              /\ incoming.alpha = IF d.x = 0 /\ d.y = 0 THEN p ELSE 1000

\* C27: in every drawn frame the zoom factor of the current slide is
\* 1.0 + 0.15 * progress for ZOOM_IN, 1.15 - 0.15 * progress for ZOOM_OUT and
\* 1.0 for every other kind, for a progress in [0, 1) that is localTime /
\* slideDuration, and so a number in [1.0, 1.15].  Progress in thousandths,
\* the factor in millionths.
C27_ZoomFactor ==
    frame.drawn =>
        LET kind == frame.mediaList[frame.slideIndex + 1].transition
            factor == frame.args[1].scale
            candidates ==
                IF frame.slideDuration > 0
                THEN {(frame.timeInSlide * 1000) \div frame.slideDuration}
                ELSE 0 .. 999
        IN  /\ factor >= 1000000 /\ factor <= 1150000
            /\ \E progress \in candidates :
                  /\ progress >= 0 /\ progress < 1000
                  /\ factor = CASE kind = "ZOOM_IN" -> 1000000 + 150 * progress
                                 [] kind = "ZOOM_OUT" -> 1150000 - 150 * progress
                                 [] OTHER -> 1000000

----------------------------------------------------------------------------
\* Properties of a drag as a whole

\* C28: within a MOVE, ROTATE or RESIZE drag, whatever pointer-moves came
\* before, a pointer-move to the position of the pointer-down gives the
\* dragged item the x, y, rotation and scale it had at drag start.
C28_ReturnRestores ==
    [][ ( /\ interactionMode \in {"MOVE", "ROTATE", "RESIZE"}
          /\ SelectedIndex # 0
          /\ MouseReturn ) =>
            LET now == canvasItems'[SelectedIndex]
                start == initialItemState.item
            IN  /\ now.x = start.x /\ now.y = start.y
                /\ now.rotation = start.rotation
                /\ now.scale = start.scale
      ]_vars

\* No drag is under way: the mode is NONE and there is no snapshot
NoDrag == interactionMode = "NONE" /\ initialItemState = NoItemState

\* C29: a pointer-up (or the pointer leaving the canvas) ends the drag
\* whatever its mode: the mode is NONE and the snapshot is cleared; from
\* then on, until a pointer-down, this stays so and a pointer-move at any
\* position leaves every item as it is.
C29_UpEndsTheDrag ==
    [][ /\ MouseUp => NoDrag'
        /\ ( /\ NoDrag' 
             /\ NoDrag \/ MouseUp ) =>
                \A pos \in DragCatalog \cup MoveCatalog :
                    handleMouseMove(canvasItems', interactionMode', selectedItemId',
                                    initialItemState', dragStartPos', pos)
                        = canvasItems'
        /\ ( /\ NoDrag
             /\ ~NoDrag' ) => \E pos \in DragCatalog : MouseDown(pos)
      ]_vars

\* A drag that turned the photo has ended, the photo still selected
C29_Witness ==
    /\ NoDrag
    /\ SelectedIndex # 0
    /\ Selected.type = "image"
    /\ Selected.rotation # 0

\* drawFrame, lines 306-313: the size the image of a photo is drawn at,
\* imgElement.width * imgBaseScale * imgZoom (imgZoom is 1)
DrawSize ==
    LET fresh == NewPhotoItem("p1", PhotoSize, [x |-> 0, y |-> 0], << >>)
    IN  [width |-> fresh.width, height |-> fresh.height]

\* drawFrame, lines 310-313: where the image is drawn in the item's box,
\* x = (w - drawW) / 2 + imgOffset.x and y likewise, in half pixels
ContentAt(item) ==
    [x |-> (item.width - DrawSize.width) + item.imgOffset.x,
     y |-> (item.height - DrawSize.height) + item.imgOffset.y]

\* C30: during a bottom-right crop-resize drag, for every pointer delta,
\* those that hold the width or the height at the floor of 50 included, the
\* image is drawn at the same position relative to the top-left corner of
\* the item's box as at drag start.
C30_ContentStaysAnchored ==
    [][ \A pos \in DragCatalog :
            ( /\ interactionMode = "CROP_BR"
              /\ SelectedIndex # 0
              /\ MouseMove(pos) ) =>
                ContentAt(canvasItems'[SelectedIndex]) = ContentAt(initialItemState.item)
      ]_vars

----------------------------------------------------------------------------
\* Overlays of the timeline

\* The slide m carries the overlay selectedOverlayId names by id
OverlayOn(m, id) ==
    IF id = "text" THEN m.overlayText # NoOverlayText
    ELSE \E j \in DOMAIN m.overlayEffects : m.overlayEffects[j].id = id

\* C31: when a step removes from the current slide the overlay that
\* selectedOverlayId names (the selected sticker or the selected text), it
\* leaves selectedOverlayId unset.
C31_RemovalClearsOverlaySelection ==
    [][ \A i \in DOMAIN media :
          ( /\ selectedOverlayId # NoOverlay
            /\ i = currentMediaIndex + 1
            /\ OverlayOn(media[i], selectedOverlayId)
            /\ i \in DOMAIN media'
            /\ media'[i].id = media[i].id
            /\ ~OverlayOn(media'[i], selectedOverlayId) )
          => selectedOverlayId' = NoOverlay ]_vars

\* C32: the box a text overlay is hit-tested against (centre, width and
\* height) is the box the text and its selection outline are drawn in, for
\* every text overlay of the timeline.
C32_TextHitBoxIsDrawBox ==
    \A i \in DOMAIN media :
        media[i].overlayText # NoOverlayText
            => TextHitBox(media[i].overlayText) = TextDrawBox(media[i].overlayText)

----------------------------------------------------------------------------
\* Properties of the background music

\* Some source of the list is playing at time t
SourcePlaysAt(sources, t) ==
    \E k \in DOMAIN sources : sources[k].startTime <= t /\ t < sources[k].endTime

\* C33: when playback starts with at least one decoded track of 0.1 s or
\* more, the sources setupAudioGraph starts cover the timeline: at every time
\* t of [0, total duration) some started source is playing.
C33_MusicCoversTheTimeline ==
    [][ ( /\ ~isPlaying /\ isPlaying'
          /\ \E i \in DOMAIN audioBuffersRef : audioBuffersRef[i] >= MinTrackMs )
        => \A t \in 0 .. calculateTotalDuration(media, settings) - 1 :
               SourcePlaysAt(sourceNodesRef', t)
      ]_vars

\* C34: the scheduling loop of setupAudioGraph is left after finitely many
\* passes for every non-empty list of buffers, a list of missing or too
\* short tracks included.
C34_SchedulingLoopEnds ==
    Len(audioBuffersRef) > 0
        => ~ScheduleLoop(audioBuffersRef, calculateTotalDuration(media, settings)).running

\* Playback has started over a list in which no track can be played
C34_Witness ==
    /\ isPlaying
    /\ audioContextRef = "open"
    /\ Len(audioBuffersRef) > 0
    /\ \A i \in DOMAIN audioBuffersRef : audioBuffersRef[i] < MinTrackMs
    /\ sourceNodesRef = << >>
    /\ gainNodesRef = 3

\* The end of the ramp down and the start of the ramp up that lines 922-927
\* schedule for slide i: duckStart + 0.3 and duckEnd - 0.3
DuckWindow(mediaList, s, i) ==
    LET currentTime == ReduceDuration(mediaList, s, i - 1)
        d == SlideDurationMs(mediaList[i], s)
        duckStart == Max(0, currentTime)
        duckEnd == currentTime + d
    IN  [rampDownEnd |-> duckStart + DuckRampMs, rampUpStart |-> duckEnd - DuckRampMs]

\* C40: once setupAudioGraph has built the graph, every event on the ducking
\* gain has a time of 0 or more, and for every ducked video slide the ramp
\* down ends no later than the ramp up begins, videos shorter than 0.6 s
\* included.
C40_DuckingEventsAreOrdered ==
    gainNodesRef > 0 =>
        /\ \A k \in DOMAIN DuckingEvents(media, settings) :
               DuckingEvents(media, settings)[k].time >= 0
        /\ \A i \in Audible(media) :
               DuckWindow(media, settings, i).rampDownEnd
                   <= DuckWindow(media, settings, i).rampUpStart

----------------------------------------------------------------------------
\* Properties of pausing

\* C35: when live playback is paused, the position stopPlayback leaves in
\* manualSeekTime shows the slide index and the local time that live
\* playback shows at the moment of the pause, also after the clock has
\* passed the total duration.
C35_PauseFreezesWhatIsShown ==
    [][ ( /\ isPlaying /\ ~isPlaying'
          /\ appState = "EDITING" /\ appState' = "EDITING"
          /\ previewIndex' = previewIndex
          /\ media' = media /\ Len(media) > 0
          /\ elapsed # Null /\ manualSeekTime' # Null )
        => LET live == FrameOf([Closure(State) EXCEPT !.isPlaying = TRUE], elapsed)
               paused == FrameOf([Closure(State) EXCEPT !.isPlaying = FALSE,
                                                         !.manualSeekTime = manualSeekTime'],
                                 elapsed)
           IN  /\ paused.slideIndex = live.slideIndex
               /\ paused.timeInSlide = live.timeInSlide
      ]_vars

----------------------------------------------------------------------------
\* Properties of the audio contexts

\* The audio contexts created by startPlayback and startRendering that have
\* not been closed: the one audioContextRef refers to, if it is open, and
\* those it referred to when it was given another
OpenContexts == orphanContexts + (IF audioContextRef = "open" THEN 1 ELSE 0)

\* C36: at most one audio context created by startPlayback or startRendering
\* is open at any time; an export started during live playback does not
\* leave the context of the playback open.
C36_OneOpenAudioContext ==
    OpenContexts <= 1

----------------------------------------------------------------------------
\* Properties of the crop mode of the collage editor

\* C37: in the collage editor isCropping is set only while an image item of
\* the scene is selected.
C37_CroppingNeedsSelectedImage ==
    isCropping =>
        /\ SelectedIndex # 0
        /\ canvasItems[SelectedIndex].type = "image"

----------------------------------------------------------------------------
\* Properties of saving a collage

\* C38: when the timer of handleSaveInternal captures the canvas, the canvas
\* shows no selection chrome: a frame without selection has been drawn since
\* the handler cleared the selection.
C38_CaptureShowsNoSelection ==
    [][ SaveTimerFires => ~shownSelection ]_vars

\* C39: after the timer of handleSaveInternal has saved the collage, no slide
\* of the timeline has an id among the usedIds of the save, for a new collage
\* and for a collage that was loaded and saved again.
C39_ConsumedPhotosLeaveTheTimeline ==
    [][ SaveTimerFires =>
            \A i \in DOMAIN media' :
                media'[i].id \notin UsedIds(saveTimer.photos) ]_vars

============================================================================
